---- MODULE Spec2Model ----
(***************************************************************************)
(* Model of the mediaorganizer streaming pipeline                          *)
(* (pkg/processor/scanner.go, pkg/media/types.go, pkg/media/metadata.go)   *)
(* and of the journal contract it runs against (pkg/db).                   *)
(*                                                                         *)
(* Strings are sequences of tokens; a path is a string whose separator is  *)
(* the token "/".  A token that starts an extension is a member of         *)
(* DotTokens.  The empty string is the empty sequence.                     *)
(***************************************************************************)
EXTENDS Integers, Sequences, FiniteSets, TLC

\* ------------------------------------------------------------------ bounds
\* number of extract workers and of transfer workers (s.concurrency)
Concurrency == 2
\* number of times the command is run on the same source tree and journal
MaxRuns == 3
\* capacity of pathsCh, metaCh and moveCh
ChanCap == 100
\* the capacity the queues are scaled to where a run is to fill them
SmallCap == 1

\* ----------------------------------------------------------------- strings
SEP == "/"

DotTokens == {".jpg", ".JPG", ".mp4", ".txt"}

\* strings.ToLower on one token
ToLowerTok(t) ==
    CASE t = ".JPG" -> ".jpg"
      [] t = "A" -> "a"
      [] OTHER -> t

ToLower(s) == [i \in 1..Len(s) |-> ToLowerTok(s[i])]

RECURSIVE Concat(_)
\* concatenation of a sequence of strings
Concat(ss) == IF ss = <<>> THEN <<>> ELSE Head(ss) \o Concat(Tail(ss))

HasPrefix(s, p) == Len(p) <= Len(s) /\ SubSeq(s, 1, Len(p)) = p

\* strings.ReplaceAll(s, " ", r)
ReplaceSpaces(s, r) ==
    Concat([i \in 1..Len(s) |-> IF s[i] = " " THEN r ELSE <<s[i]>>])

\* index of the last separator of p, 0 when there is none
LastSep(p) ==
    LET idx == {i \in 1..Len(p) : p[i] = SEP}
    IN IF idx = {} THEN 0 ELSE CHOOSE i \in idx : \A j \in idx : j <= i

\* filepath.Base
Base(p) == SubSeq(p, LastSep(p) + 1, Len(p))

\* filepath.Dir (of a cleaned path)
Dir(p) == IF LastSep(p) <= 1 THEN SubSeq(p, 1, LastSep(p))
          ELSE SubSeq(p, 1, LastSep(p) - 1)

\* filepath.Ext: the suffix of the last element that starts at its last dot
Ext(p) ==
    IF Len(p) > 0 /\ p[Len(p)] \in DotTokens THEN <<p[Len(p)]>> ELSE <<>>

\* strings.TrimSuffix
TrimSuffix(s, suf) ==
    IF Len(suf) <= Len(s) /\ SubSeq(s, Len(s) - Len(suf) + 1, Len(s)) = suf
    THEN SubSeq(s, 1, Len(s) - Len(suf)) ELSE s

\* the extension without its leading dot (ext[1:]), token-wise
Undot(t) ==
    CASE t = ".jpg" -> "jpg"
      [] t = ".JPG" -> "JPG"
      [] t = ".mp4" -> "mp4"
      [] t = ".txt" -> "txt"
      [] OTHER -> t

IsAbs(p) == Len(p) > 0 /\ p[1] = SEP

RECURSIVE JoinParts(_)
\* the elements of parts that are not empty, joined by the separator
JoinParts(parts) ==
    IF parts = <<>> THEN <<>>
    ELSE LET h == Head(parts)
             r == JoinParts(Tail(parts))
         IN IF h = <<>> THEN r
            ELSE IF r = <<>> THEN h
            ELSE IF h = <<SEP>> THEN h \o r
            ELSE h \o <<SEP>> \o r

\* filepath.Join: empty elements are ignored, the rest joined by the
\* separator; the elements are evaluated once
Join(parts) == CHOOSE r \in {JoinParts(p) : p \in {parts}} : TRUE

DigitTok(d) ==
    CASE d = 0 -> "0" [] d = 1 -> "1" [] d = 2 -> "2" [] d = 3 -> "3"
      [] d = 4 -> "4" [] d = 5 -> "5" [] d = 6 -> "6" [] d = 7 -> "7"
      [] d = 8 -> "8" [] d = 9 -> "9"

RECURSIVE Decimal(_)
\* fmt.Sprintf("%d", n) for n >= 0
Decimal(n) ==
    IF n < 10 THEN <<DigitTok(n)>>
    ELSE Decimal(n \div 10) \o <<DigitTok(n % 10)>>

\* fmt.Sprintf("%03d", num)
formatSequence(num) ==
    LET d == Decimal(num)
    IN IF Len(d) >= 3 THEN d
       ELSE [i \in 1..(3 - Len(d)) |-> "0"] \o d

\* ------------------------------------------------------------ media package
TypeImage == "image"
TypeVideo == "video"
TypeUnknown == "unknown"

DetermineMediaType(filePath) ==
    LET ext == ToLower(Ext(filePath))
    IN CASE ext = <<".jpg">> -> TypeImage
         [] ext = <<".mp4">> -> TypeVideo
         [] OTHER -> TypeUnknown

\* time.Format("20060102-150405")
FormatStamp(t) == <<t.y, t.mo, t.d, "-", t.hms>>

\* MediaFile.GetExtension
GetExtension(m) ==
    LET e == ToLower(Ext(m.SourcePath))
    IN IF e = <<>> THEN <<>> ELSE <<Undot(e[1])>>

MediaFile_GetDestinationPath(m, baseDir, extensionDir, isDuplicate, scheme, duplicatesDir) ==
    LET year == <<m.CreationTime.y>>
        month == <<m.CreationTime.mo>>
        day == <<m.CreationTime.d>>
        ext == GetExtension(m)
        dateStructure == Join(<<year, year \o <<"-">> \o month,
                                year \o <<"-">> \o month \o <<"-">> \o day>>)
    IN IF extensionDir # <<>> THEN
            IF isDuplicate /\ IsAbs(duplicatesDir)
            THEN Join(<<duplicatesDir, dateStructure>>)
            ELSE IF isDuplicate
            THEN Join(<<extensionDir, duplicatesDir, dateStructure>>)
            ELSE Join(<<extensionDir, dateStructure>>)
       ELSE IF scheme = "date_first" THEN
            IF isDuplicate /\ IsAbs(duplicatesDir)
            THEN Join(<<duplicatesDir, dateStructure, ext>>)
            ELSE IF isDuplicate
            THEN Join(<<baseDir, duplicatesDir, dateStructure, ext>>)
            ELSE Join(<<baseDir, dateStructure, ext>>)
       ELSE
            IF isDuplicate /\ IsAbs(duplicatesDir)
            THEN Join(<<duplicatesDir, ext, dateStructure>>)
            ELSE IF isDuplicate
            THEN Join(<<baseDir, ext, duplicatesDir, dateStructure>>)
            ELSE Join(<<baseDir, ext, dateStructure>>)

RECURSIVE StripExts(_)
\* the loop of GetNewFilename that removes every extension of the original name
StripExts(name) ==
    IF Ext(name) = <<>> THEN name ELSE StripExts(TrimSuffix(name, Ext(name)))

MediaFile_GetNewFilename(m, scheme, spaceReplacement, noOriginalName) ==
    LET ext == ToLower(Ext(m.SourcePath))
        timestamp == FormatStamp(m.CreationTime)
        stripped == IF Len(m.OriginalName) > 0 THEN StripExts(m.OriginalName)
                    ELSE m.OriginalName
        origNameWithoutExt ==
            IF noOriginalName THEN <<>>
            ELSE IF spaceReplacement # <<>> /\ spaceReplacement # <<" ">>
                 THEN ReplaceSpaces(stripped, spaceReplacement)
                 ELSE stripped
        keepName == origNameWithoutExt # <<>> /\ ~HasPrefix(origNameWithoutExt, timestamp)
    IN IF scheme = "date_first" THEN
            LET dimension == IF m.LargerDimension > 0 /\ m.Type = TypeImage
                             THEN <<"_">> \o Decimal(m.LargerDimension) ELSE <<>>
                namePart == IF keepName THEN <<"_">> \o origNameWithoutExt ELSE <<>>
            IN timestamp \o dimension \o namePart \o ext
       ELSE
            LET dimension == IF m.LargerDimension > 0
                             THEN <<"_">> \o Decimal(m.LargerDimension) ELSE <<>>
                namePart == IF keepName THEN <<" (">> \o origNameWithoutExt \o <<")">>
                            ELSE <<>>
            IN timestamp \o dimension \o namePart \o ext

\* ComputeFileHash: the digest of the bytes read (taken to be collision-free)
HashOf(content) ==
    CASE content = "c1" -> "h1"
      [] content = "c2" -> "h2"
      [] content = "c3" -> "h3"
      [] OTHER -> "h0"

\* os.FileInfo.Size
SizeOf(content) ==
    CASE content = "c1" -> 10
      [] content = "c2" -> 10
      [] content = "c3" -> 20
      [] OTHER -> 5

T1 == [y |-> "2024", mo |-> "01", d |-> "15", hms |-> "103000"]
T2 == [y |-> "2024", mo |-> "02", d |-> "03", hms |-> "080000"]

\* the creation time the extractor reads from the bytes (EXIF), the
\* modification time for a file without metadata
CreationTimeOf(content) == IF content = "c3" THEN T2 ELSE T1

\* image.DecodeConfig: the larger of width and height, 0 when undecodable
DimensionOf(content) == IF content \in {"c1", "c2", "c3"} THEN 4000 ELSE 0

\* ------------------------------------------------------------- the journal
StatusPending == "pending"
StatusCompleted == "completed"
StatusFailed == "failed"
StatusDryRun == "dry_run"
StatusDestIndex == "dest_index"

\* an arbitrary but fixed enumeration of a finite set (the row order of a query)
SetToSeq(S) ==
    CHOOSE q \in [1..Cardinality(S) -> S] : \A i, k \in 1..Cardinality(S) : i # k => q[i] # q[k]

Put(f, k, v) == [x \in DOMAIN f \cup {k} |-> IF x = k THEN v ELSE f[x]]

Drop(f, ks) == [x \in DOMAIN f \ ks |-> f[x]]

\* an insert that replaces the row of a path journaled already
InsertFile_m(j, path, rec) == [err |-> "", j |-> Put(j, path, rec)]

\* rows are identified by their source path (the unique key of the table)
InsertFile(j, path, rec) ==
    IF path \in DOMAIN j /\ j[path].Status # StatusDestIndex
    THEN [err |-> "ErrAlreadyExists", j |-> j]
    ELSE [err |-> "", j |-> Put(j, path, rec)]

UpdateStatus(j, id, status, msg) ==
    IF id \in DOMAIN j
    THEN [j EXCEPT ![id].Status = status, ![id].ErrorMessage = msg]
    ELSE j

UpdateHash(j, id, hash) ==
    IF id \in DOMAIN j THEN [j EXCEPT ![id].Hash = hash] ELSE j

UpdateDestPath(j, id, destPath, seqNum, isDuplicate) ==
    IF id \in DOMAIN j
    THEN [j EXCEPT ![id].DestPath = destPath, ![id].SequenceNum = seqNum,
                   ![id].IsDuplicate = isDuplicate]
    ELSE j

CountByFileSize(j, size) == Cardinality({p \in DOMAIN j : j[p].FileSize = size})

CountByTimestampKey(j, key) == Cardinality({p \in DOMAIN j : j[p].TimestampKey = key})

GetByHash(j, hash) ==
    IF hash = "" THEN {} ELSE {p \in DOMAIN j : j[p].Hash = hash}

GetUnhashedByFileSize(j, size) ==
    SetToSeq({p \in DOMAIN j : j[p].FileSize = size /\ j[p].Hash = ""})

\* a query that returns the completed rows only
GetCompletedSourcePaths_m(j) ==
    {p \in DOMAIN j : j[p].Status = StatusCompleted}

\* the source paths of the rows with status completed or dry_run
GetCompletedSourcePaths(j) ==
    {p \in DOMAIN j : j[p].Status \in {StatusCompleted, StatusDryRun}}

GetPendingFiles(j) ==
    SetToSeq({p \in DOMAIN j : j[p].Status = StatusPending /\ j[p].DestPath # <<>>})

\* a reset that also forgets the hash of the rows it resets
ResetFailed_m(j) ==
    [p \in DOMAIN j |->
        IF j[p].Status = StatusFailed
        THEN [j[p] EXCEPT !.Status = StatusPending, !.ErrorMessage = "", !.Hash = ""]
        ELSE j[p]]

ResetFailed(j) ==
    [p \in DOMAIN j |->
        IF j[p].Status = StatusFailed
        THEN [j[p] EXCEPT !.Status = StatusPending, !.ErrorMessage = ""]
        ELSE j[p]]

\* the count ResetFailed returns: the rows it has changed
ResetFailedCount(j) == Cardinality({p \in DOMAIN j : j[p].Status = StatusFailed})

\* the number of rows of a status in the histogram, dest_index rows left out
Stats(j, status) ==
    Cardinality({p \in DOMAIN j : j[p].Status = status /\ status # StatusDestIndex})

DuplicateCount(j) == Cardinality({p \in DOMAIN j : j[p].IsDuplicate})

TotalCount(j) == Cardinality({p \in DOMAIN j : j[p].Status # StatusDestIndex})

\* removes the dest_index rows that carry no hash
ClearDestIndex(j) ==
    Drop(j, {p \in DOMAIN j : j[p].Status = StatusDestIndex /\ j[p].Hash = ""})

RECURSIVE InsertDestFiles(_, _)
\* INSERT OR IGNORE of one dest_index row per entry
InsertDestFiles(j, files) ==
    IF files = <<>> THEN j
    ELSE LET f == Head(files)
             row == [FileSize |-> f.Size, MediaType |-> f.MediaType,
                     Extension |-> f.Extension, TimestampKey |-> <<>>,
                     Hash |-> "", DestPath |-> <<>>, SequenceNum |-> 0,
                     IsDuplicate |-> FALSE, Status |-> StatusDestIndex,
                     ErrorMessage |-> ""]
         IN InsertDestFiles(IF f.Path \in DOMAIN j THEN j ELSE Put(j, f.Path, row),
                            Tail(files))

\* ------------------------------------------------------------- the scanner
Lookup(map, k) == IF k \in DOMAIN map THEN map[k] ELSE <<>>

SourceDir == <<SEP, "src">>
DestDir == <<SEP, "dst">>

\* the part of the configuration that is the same in every run
BaseScanner ==
    [sourceDir |-> SourceDir,
     destination |-> <<>>,
     destinationDirs |-> (TypeImage :> DestDir),
     extensionDirs |-> <<>>,
     scheme |-> "extension_first",
     spaceReplacement |-> <<"_">>,
     duplicatesDir |-> <<"duplicates">>]

computeDestPath(s, file, isDuplicate, seqNum) ==
    LET ext == IF Len(Ext(file.SourcePath)) > 0
               THEN <<Undot(Ext(file.SourcePath)[1])>> ELSE <<>>
        unified == s.scheme = "date_first" /\ s.destination # <<>>
        baseDestDir == IF unified THEN s.destination
                       ELSE Lookup(s.destinationDirs, file.Type)
        extensionDir == IF ext # <<>> THEN Lookup(s.extensionDirs, ext) ELSE <<>>
        fileDir == MediaFile_GetDestinationPath(file, baseDestDir, extensionDir,
                                                isDuplicate, s.scheme, s.duplicatesDir)
        fileName == MediaFile_GetNewFilename(file, s.scheme, s.spaceReplacement,
                                             s.noOriginalName)
        suffixed == IF seqNum > 1
                    THEN LET fileExt == Ext(fileName)
                             baseName == SubSeq(fileName, 1, Len(fileName) - Len(fileExt))
                         IN baseName \o <<"_">> \o formatSequence(seqNum) \o fileExt
                    ELSE fileName
    IN IF baseDestDir = <<>> THEN <<>> ELSE Join(<<fileDir, suffixed>>)

\* the content of a directory entry that is a symbolic link to nothing
Dangling == "dangling"

\* os.Stat(path) succeeds: there is an entry and it is not a dangling link
Exists(f, path) == path \in DOMAIN f /\ f[path] # Dangling

\* ExtractFileMetadata: the record read from the file at filePath
ExtractFileMetadata(f, filePath) ==
    IF ~Exists(f, filePath) \/ DetermineMediaType(filePath) = TypeUnknown
    THEN [Err |-> TRUE, SourcePath |-> filePath]
    ELSE [Err |-> FALSE,
          SourcePath |-> filePath,
          Type |-> DetermineMediaType(filePath),
          FileSize |-> SizeOf(f[filePath]),
          OriginalName |-> Base(filePath),
          CreationTime |-> CreationTimeOf(f[filePath]),
          LargerDimension |-> DimensionOf(f[filePath])]

\* the timestamp key the organizer builds for a file
tsKeyOf(file) ==
    FormatStamp(file.CreationTime) \o <<"_", file.Type, "_">> \o Ext(file.SourcePath)

\* the pending row the organizer inserts for a file
NewRecord(file) ==
    [FileSize |-> file.FileSize, MediaType |-> file.Type,
     Extension |-> GetExtension(file), TimestampKey |-> tsKeyOf(file),
     Hash |-> "", DestPath |-> <<>>, SequenceNum |-> 0, IsDuplicate |-> FALSE,
     Status |-> StatusPending, ErrorMessage |-> ""]

\* the names of the journal's storage files
JournalFileTokens ==
    {".mediaorganizer.db", ".mediaorganizer.db-wal", ".mediaorganizer.db-shm"}

\* strings.HasSuffix(path, ".mediaorganizer.db") and its -wal and -shm variants
IsJournalFile(p) == Len(p) > 0 /\ p[Len(p)] \in JournalFileTokens

\* a walker that does not consult the completed paths
WalkAccepts_m(filePath, resume, completed) ==
    /\ ~HasPrefix(Base(filePath), <<"._">>)
    /\ ~IsJournalFile(filePath)
    /\ DetermineMediaType(filePath) # TypeUnknown

\* the walker's filter on one entry of the source tree
WalkAccepts(filePath, resume, completed) ==
    /\ ~HasPrefix(Base(filePath), <<"._">>)
    /\ ~IsJournalFile(filePath)
    /\ DetermineMediaType(filePath) # TypeUnknown
    /\ ~(resume /\ filePath \in completed)

\* p lies in the directory dir or below it
Under(p, dir) == HasPrefix(p, dir \o <<SEP>>)

\* the destination directories preIndexDestinations walks
IndexedDirs(s) ==
    {d \in ({s.destinationDirs[t] : t \in DOMAIN s.destinationDirs}
             \cup {s.extensionDirs[e] : e \in DOMAIN s.extensionDirs}
             \cup (IF s.scheme = "date_first" THEN {s.destination} ELSE {})
             \cup (IF IsAbs(s.duplicatesDir) THEN {s.duplicatesDir} ELSE {})) : d # <<>>}

\* the directories above path, the root left out (what os.MkdirAll of
\* filepath.Dir(path) makes sure of): the prefixes of path that end right
\* before a separator
AncestorDirs(path) ==
    {SubSeq(path, 1, i - 1) : i \in {k \in 3..Len(path) : path[k] = SEP}}

\* the working directory of the process: the operating system resolves a
\* relative path against it
Cwd == SourceDir

\* the file system entry a path names
Resolve(p) == IF IsAbs(p) THEN p ELSE Join(<<Cwd, p>>)

\* the path filepath.Walk(dir) hands to its callback for the entry q below
\* dir: filepath.Join(dir, ...), relative when dir is
WalkedPath(dir, q) == IF IsAbs(dir) THEN q ELSE SubSeq(q, Len(Cwd) + 2, Len(q))

\* the callback's test on a directory: SkipDir when the path is the source
\* directory or starts with the source directory and a separator
skipsDir_m(s, path) == FALSE

skipsDir(s, path) == path = s.sourceDir \/ HasPrefix(path, s.sourceDir \o <<SEP>>)

\* the directories the walk of dir passes on its way to the walked path e
DirsOnWalk(dir, e) ==
    {a \in AncestorDirs(e) \cup {dir} : HasPrefix(a, dir) /\ Len(a) < Len(e)}

\* the media files the walk of dir collects: [Path: the path as walked,
\* File: the entry it names]
preIndexWalk(s, f, dir) ==
    LET root == Resolve(dir)
        below == {q \in DOMAIN f :
                    HasPrefix(q, IF root = <<SEP>> THEN root ELSE root \o <<SEP>>)}
    IN {[Path |-> WalkedPath(dir, q), File |-> q] :
          q \in {q \in below :
                   /\ \A a \in DirsOnWalk(dir, WalkedPath(dir, q)) : ~skipsDir(s, a)
                   /\ ~HasPrefix(Base(q), <<"._">>)
                   /\ ~IsJournalFile(q)
                   /\ DetermineMediaType(q) # TypeUnknown}}

\* a scan that does not index the destination directories
preIndexDestinations_m(s, j, f) == j

preIndexDestinations(s, j, f) ==
    LET found == UNION {preIndexWalk(s, f, d) : d \in IndexedDirs(s)}
        entry(w) == [Path |-> w.Path, Size |-> SizeOf(f[w.File]),
                     MediaType |-> DetermineMediaType(w.Path),
                     Extension |-> IF Ext(w.Path) = <<>> THEN <<>>
                                   ELSE <<Undot(ToLower(Ext(w.Path))[1])>>]
        files == [i \in 1..Cardinality(found) |-> entry(SetToSeq(found)[i])]
    IN IF IndexedDirs(s) = {} THEN j
       ELSE IF found = {} THEN ClearDestIndex(j)
       ELSE InsertDestFiles(ClearDestIndex(j), files)

\* os.ReadDir(d) returns no entry
IsEmptyDir(f, ds, d) ==
    /\ \A p \in DOMAIN f : Dir(p) # d
    /\ \A e \in ds : Dir(e) # d

\* the number of characters of a token
TokLen(t) ==
    CASE t = "src" -> 3
      [] t = "dst" -> 3
      [] t = "d2" -> 2
      [] t = "emptydir" -> 8
      [] OTHER -> 1

RECURSIVE PathLen(_)
\* len(path)
PathLen(p) == IF p = <<>> THEN 0 ELSE TokLen(Head(p)) + PathLen(Tail(p))

\* the orders sort.Slice may leave the directories S in: longer paths first
SortedByLenDesc(S) ==
    {q \in [1..Cardinality(S) -> S] :
        /\ \A i, k \in 1..Cardinality(S) : i # k => q[i] # q[k]
        /\ \A i, k \in 1..Cardinality(S) : i < k => PathLen(q[i]) >= PathLen(q[k])}

\* a cleanup that runs whatever the options are
cleanupGuard_m(s, deleteEmptyDirs) == TRUE

\* the condition under which Scan calls cleanupEmptyDirectories
cleanupGuard(s, deleteEmptyDirs) == deleteEmptyDirs /\ ~s.dryRun /\ ~s.copyFiles

\* the directories cleanupEmptyDirectories lists: below the source directory
\* and without an entry
emptyDirs(f, ds) ==
    {d \in ds : Under(d, SourceDir) /\ d # SourceDir /\ IsEmptyDir(f, ds, d)}

\* --------------------------------------------------------------- the state
VARIABLES
    fs,              \* the filesystem: path -> content of the file there
    journal,         \* the journal table: source path -> row
    dbExists,        \* the journal file exists (main.go: resumeMode)
    phase,           \* "idle": no process; "run": Scan is running
    opts,            \* the flags of the current run
    resumeMode,      \* s.resumeMode
    completedPaths,  \* Scan's completedPaths
    pendingRecords,  \* Scan's pendingRecords not yet re-queued
    walkIdx,         \* the walker's position in the listing of the source tree
    pathsCh,         \* pathsCh
    extracting,      \* the results the extract workers hold
    metaCh,          \* metaCh
    org,             \* the organizer goroutine: its position and locals
    moveCh,          \* moveCh
    moving,          \* the jobs the transfer workers hold
    sent,            \* history: number of jobs emitted per record in this run
    startJ,          \* history: the journal when the current run started
    startFs,         \* history: the filesystem when the current run started
    prevExit,        \* history: how the latest run ended
    runs,            \* number of runs started so far
    tree,            \* history: the source tree the first run started from
    result,          \* s.result, the ScanResult of the current run
    dirs,            \* the filesystem: the directories
    cleanup,         \* history: the latest return of Scan: the deleteEmptyDirs
                     \* option it read and the directories it removed, in order
    cap,             \* the capacity pathsCh, metaCh and moveCh are made with
    xdev             \* the destinations lie on another filesystem than the
                     \* source: os.Rename fails with "cross-device link"

vars == <<fs, journal, dbExists, phase, opts, resumeMode, completedPaths,
          pendingRecords, walkIdx, pathsCh, extracting, metaCh, org, moveCh,
          moving, sent, startJ, startFs, prevExit, runs, tree, result, dirs,
          cleanup, cap, xdev>>

PA == Join(<<SourceDir, <<"a", ".jpg">>>>)
PB == Join(<<SourceDir, <<"d2">>, <<"a", ".jpg">>>>)
PC == Join(<<SourceDir, <<"a", ".JPG">>>>)
PD == Join(<<SourceDir, <<"d2">>, <<"b", ".jpg">>>>)

\* a media file that lies under the destination directory before the first
\* run: organized earlier from another source tree with another journal
DX == Join(<<DestDir, <<"old">>, <<"x", ".jpg">>>>)


\* the source trees a behaviour may start from
Scenarios ==
    { (PA :> "c1" @@ PB :> "c1"),
      (PA :> "c1" @@ PC :> "c2"),
      (PA :> "c1" @@ DX :> "c1"),
      (PB :> "c3" @@ PC :> Dangling) }

\* a source tree of three files with one timestamp key
SeqTree == (PA :> "c1" @@ PB :> "c2" @@ PD :> "c1")

\* the listing of the source tree in the lexical order filepath.Walk follows
WalkOrder == IF PD \in DOMAIN tree THEN <<PC, PA, PB, PD>> ELSE <<PC, PA, PB>>

\* the command lines a run may be started with: move (the default), --copy,
\* --dry-run.  A behaviour repeats the same command, or follows a dry run by a
\* real one.
Modes == {"move", "copy", "dry"}

ModeOf(o) == IF o.dryRun THEN "dry" ELSE IF o.copyFiles THEN "copy" ELSE "move"

Scanner(o) == o @@ BaseScanner

\* directories of the source tree that hold no file: one below the source
\* directory, one inside another
ED1 == Join(<<SourceDir, <<"emptydir">>>>)
ED2 == Join(<<SourceDir, <<"x">>, <<"y">>>>)

\* the directories before the first run: those of the files, the source and
\* destination directories, and the directories without files
InitDirs(f) ==
    UNION {AncestorDirs(p) : p \in DOMAIN f}
        \cup {SourceDir, DestDir, ED1, ED2} \cup AncestorDirs(ED1) \cup AncestorDirs(ED2)

\* no cleanup has been decided on
NoCleanup == [deleteEmptyDirs |-> FALSE, removed |-> <<>>]

\* the ScanResult of NewMediaScanner
ZeroResult ==
    [TotalFiles |-> 0, ProcessedFiles |-> 0, SkippedFiles |-> 0,
     OrganizedFiles |-> 0, ErrorCount |-> 0, DuplicateCount |-> 0]

\* a result that keeps the counts accumulated in memory during the run
populateResultFromJournal_m(j, r) == r

\* populateResultFromJournal: the counts are read back from the journal
populateResultFromJournal(j, r) ==
    [r EXCEPT !.OrganizedFiles = Stats(j, StatusCompleted) + Stats(j, StatusDryRun),
              !.ErrorCount = Stats(j, StatusFailed),
              !.DuplicateCount = DuplicateCount(j),
              !.TotalFiles = TotalCount(j),
              !.ProcessedFiles = TotalCount(j)]

EmptyMap == [x \in {} |-> 0]

OrgIdle == [pc |-> "loop", file |-> [Err |-> TRUE], fileHash |-> "",
            unhashed |-> <<>>, hashPath |-> <<>>]

\* the state before the first run, the files being f, the queues of capacity
\* c, and x telling whether the destinations lie on another filesystem
InitOn(f, c, x) ==
    /\ fs = f
    /\ cap = c
    /\ xdev = x
    /\ journal = EmptyMap
    /\ dbExists = FALSE
    /\ phase = "idle"
    /\ opts = [dryRun |-> FALSE, copyFiles |-> FALSE, noOriginalName |-> FALSE,
               fresh |-> FALSE]
    /\ resumeMode = FALSE
    /\ completedPaths = {}
    /\ pendingRecords = <<>>
    /\ walkIdx = 1
    /\ pathsCh = <<>>
    /\ extracting = {}
    /\ metaCh = <<>>
    /\ org = OrgIdle
    /\ moveCh = <<>>
    /\ moving = {}
    /\ sent = EmptyMap
    /\ startJ = EmptyMap
    /\ startFs = fs
    /\ prevExit = "none"
    /\ runs = 0
    /\ tree = fs
    /\ result = ZeroResult
    /\ dirs = InitDirs(fs)
    /\ cleanup = NoCleanup

\* the state before the first run, the files being f and the queues of
\* capacity c, source and destinations on one filesystem
InitCap(f, c) == InitOn(f, c, FALSE)

\* the state before the first run, the files being f
InitWith(f) == InitCap(f, ChanCap)

Init == \E f \in Scenarios : InitWith(f)

\* --fresh has main forget the journal of the earlier runs
JournalAtStart_m(j, fresh) == EmptyMap

\* the journal main opens: with --fresh the database file is removed first
JournalAtStart(j, fresh) == IF fresh THEN EmptyMap ELSE j

\* main's resumeMode: the database file exists and --fresh is not given
resumeModeOf(dbPresent, fresh) == ~fresh /\ dbPresent

\* main and the head of Scan: open the journal, pre-index the destinations,
\* load the resume state, start the goroutines
StartRun(mode) ==
    /\ phase = "idle"
    /\ runs < MaxRuns
    /\ runs = 0 \/ mode = ModeOf(opts) \/ opts.dryRun
    /\ runs' = runs + 1
    /\ LET o == [opts EXCEPT !.dryRun = (mode = "dry"), !.copyFiles = (mode = "copy")]
           resume == resumeModeOf(dbExists, o.fresh)
           j1 == preIndexDestinations(Scanner(o), JournalAtStart(journal, o.fresh), fs)
           j2 == IF resume THEN ResetFailed(j1) ELSE j1
           pend == IF resume THEN GetPendingFiles(j2) ELSE <<>>
       IN /\ opts' = o
          /\ journal' = j2
          /\ resumeMode' = resume
          /\ completedPaths' = IF resume THEN GetCompletedSourcePaths(j1) ELSE {}
          /\ pendingRecords' =
                 [i \in 1..Len(pend) |->
                     [SourcePath |-> pend[i], DestPath |-> j2[pend[i]].DestPath,
                      IsDuplicate |-> j2[pend[i]].IsDuplicate]]
          /\ startJ' = journal
    /\ dbExists' = TRUE
    /\ phase' = "run"
    /\ walkIdx' = 1
    /\ pathsCh' = <<>>
    /\ extracting' = {}
    /\ metaCh' = <<>>
    /\ org' = OrgIdle
    /\ moveCh' = <<>>
    /\ moving' = {}
    /\ sent' = EmptyMap
    /\ startFs' = fs
    /\ result' = ZeroResult
    /\ cleanup' = NoCleanup
    /\ UNCHANGED <<fs, prevExit, tree, dirs>>
    /\ UNCHANGED <<cap, xdev>>

\* one entry of the walker's filepath.Walk callback
Walk ==
    /\ phase = "run"
    /\ walkIdx <= Len(WalkOrder)
    /\ LET path == WalkOrder[walkIdx]
       IN IF path \in DOMAIN fs /\ WalkAccepts(path, resumeMode, completedPaths)
          THEN /\ Len(pathsCh) < cap
               /\ pathsCh' = Append(pathsCh, path)
               /\ result' = [result EXCEPT !.TotalFiles = @ + 1]
          ELSE UNCHANGED <<pathsCh, result>>
    /\ walkIdx' = walkIdx + 1
    /\ UNCHANGED <<fs, journal, dbExists, phase, opts, resumeMode, completedPaths,
                   pendingRecords, extracting, metaCh, org, moveCh, moving, sent,
                   startJ, startFs, prevExit, runs, tree, dirs, cleanup>>
    /\ UNCHANGED <<cap, xdev>>

\* a walker that closes pathsCh when it reaches the last entry of the listing
pathsClosed_m == walkIdx >= Len(WalkOrder)

\* close(pathsCh): filepath.Walk has returned
pathsClosed == walkIdx > Len(WalkOrder)

\* an extract worker receives a path and reads the file's metadata
ExtractTake ==
    /\ phase = "run"
    /\ pathsCh # <<>>
    /\ Cardinality(extracting) < Concurrency
    /\ extracting' = extracting \cup {ExtractFileMetadata(fs, Head(pathsCh))}
    /\ pathsCh' = Tail(pathsCh)
    /\ UNCHANGED <<fs, journal, dbExists, phase, opts, resumeMode, completedPaths,
                   pendingRecords, walkIdx, metaCh, org, moveCh, moving, sent,
                   startJ, startFs, prevExit, runs, tree, result, dirs, cleanup>>
    /\ UNCHANGED <<cap, xdev>>

\* an extract worker sends its result
ExtractSend ==
    /\ phase = "run"
    /\ Len(metaCh) < cap
    /\ \E r \in extracting :
          /\ metaCh' = Append(metaCh, r)
          /\ extracting' = extracting \ {r}
    /\ UNCHANGED <<fs, journal, dbExists, phase, opts, resumeMode, completedPaths,
                   pendingRecords, walkIdx, pathsCh, org, moveCh, moving, sent,
                   startJ, startFs, prevExit, runs, tree, result, dirs, cleanup>>
    /\ UNCHANGED <<cap, xdev>>

\* a pipeline in which nobody closes metaCh
metaClosed_m == FALSE

\* close(metaCh): the walker has closed pathsCh and every extract worker has
\* returned
metaClosed == pathsClosed /\ pathsCh = <<>> /\ extracting = {}

Bump(f, k) == Put(f, k, IF k \in DOMAIN f THEN f[k] + 1 ELSE 1)

\* a re-queue that takes every vanished source for a finished transfer
resumeMissingStatus_m(f, rec) == [status |-> StatusCompleted, msg |-> ""]

\* the status a re-queued record gets when its source file is gone
resumeMissingStatus(f, rec) ==
    IF rec.DestPath # <<>> /\ Exists(f, rec.DestPath)
    THEN [status |-> StatusCompleted, msg |-> ""]
    ELSE [status |-> StatusFailed, msg |-> "source file missing on resume"]

\* the organizer re-queues one pending record loaded at startup
OrgRequeue ==
    /\ phase = "run"
    /\ org.pc = "loop"
    /\ pendingRecords # <<>>
    /\ LET rec == Head(pendingRecords)
       IN IF ~Exists(fs, rec.SourcePath)
          THEN /\ journal' = UpdateStatus(journal, rec.SourcePath,
                                          resumeMissingStatus(fs, rec).status,
                                          resumeMissingStatus(fs, rec).msg)
               /\ UNCHANGED <<moveCh, sent>>
          ELSE /\ Len(moveCh) < cap
               /\ moveCh' = Append(moveCh, [RecordID |-> rec.SourcePath,
                                            SourcePath |-> rec.SourcePath,
                                            DestPath |-> rec.DestPath,
                                            IsDuplicate |-> rec.IsDuplicate])
               /\ sent' = Bump(sent, rec.SourcePath)
               /\ UNCHANGED journal
    /\ pendingRecords' = Tail(pendingRecords)
    /\ UNCHANGED <<fs, dbExists, phase, opts, resumeMode, completedPaths, walkIdx,
                   pathsCh, extracting, metaCh, org, moving, startJ, startFs,
                   prevExit, runs, tree, result, dirs, cleanup>>
    /\ UNCHANGED <<cap, xdev>>

\* an organizer that goes on after InsertFile's error
skipResult_m(mr, insErr) == mr.Err

\* the organizer drops a result: extraction failed, or InsertFile returned an
\* error (ErrAlreadyExists: the path is journaled already)
skipResult(mr, insErr) == mr.Err \/ insErr # ""

\* an organizer that hashes every file
needsHash_m(sizeCount) == TRUE

\* lazy hashing: the file is hashed when its size is journaled at least twice
needsHash(sizeCount) == sizeCount >= 2

\* a count that forgets the results whose extraction failed
countResult_m(r, mr) ==
    IF mr.Err THEN r ELSE [r EXCEPT !.ProcessedFiles = @ + 1]

\* the organizer counts a result: an extraction failure as error and skipped,
\* any other result as processed
countResult(r, mr) ==
    IF mr.Err
    THEN [r EXCEPT !.ErrorCount = @ + 1, !.SkippedFiles = @ + 1]
    ELSE [r EXCEPT !.ProcessedFiles = @ + 1]

\* the organizer receives one result: insert, size count, hash of the new file
OrgReceive ==
    /\ phase = "run"
    /\ org.pc = "loop"
    /\ pendingRecords = <<>>
    /\ metaCh # <<>>
    /\ metaCh' = Tail(metaCh)
    /\ LET mr == Head(metaCh)
           id == mr.SourcePath
           ins == InsertFile(journal, id, NewRecord(mr))
           sizeCount == CountByFileSize(ins.j, mr.FileSize)
           h == IF Exists(fs, id) THEN HashOf(fs[id]) ELSE ""
           j2 == IF h # "" THEN UpdateHash(ins.j, id, h) ELSE ins.j
           unhashed == GetUnhashedByFileSize(j2, mr.FileSize)
       IN /\ result' = countResult(result, mr)
          /\ IF skipResult(mr, IF mr.Err THEN "" ELSE ins.err)
             THEN UNCHANGED <<journal, org>>
             ELSE IF needsHash(sizeCount)
             THEN /\ journal' = j2
                  /\ org' = [pc |-> IF unhashed = <<>> THEN "assign" ELSE "backfill",
                             file |-> mr, fileHash |-> h, unhashed |-> unhashed,
                             hashPath |-> <<>>]
             ELSE /\ journal' = ins.j
                  /\ org' = [pc |-> "assign", file |-> mr, fileHash |-> "",
                             unhashed |-> <<>>, hashPath |-> <<>>]
    /\ UNCHANGED <<fs, dbExists, phase, opts, resumeMode, completedPaths,
                   pendingRecords, walkIdx, pathsCh, extracting, moveCh, moving,
                   sent, startJ, startFs, prevExit, runs, tree, dirs, cleanup>>
    /\ UNCHANGED <<cap, xdev>>

\* backfill: os.Stat of the candidate's source path chooses the path to hash
OrgBackfillStat ==
    /\ phase = "run"
    /\ org.pc = "backfill"
    /\ LET ur == Head(org.unhashed)
           destPath == journal[ur].DestPath
       IN org' = [org EXCEPT !.pc = "bfhash",
                             !.hashPath = IF ~Exists(fs, ur) /\ destPath # <<>>
                                          THEN destPath ELSE ur]
    /\ UNCHANGED <<fs, journal, dbExists, phase, opts, resumeMode, completedPaths,
                   pendingRecords, walkIdx, pathsCh, extracting, metaCh, moveCh,
                   moving, sent, startJ, startFs, prevExit, runs, tree, result, dirs, cleanup>>
    /\ UNCHANGED <<cap, xdev>>

\* backfill: ComputeFileHash of the chosen path, UpdateHash when it succeeds
OrgBackfillHash ==
    /\ phase = "run"
    /\ org.pc = "bfhash"
    /\ journal' = IF Exists(fs, org.hashPath)
                  THEN UpdateHash(journal, Head(org.unhashed), HashOf(fs[org.hashPath]))
                  ELSE journal
    /\ org' = [org EXCEPT !.pc = IF Tail(org.unhashed) = <<>> THEN "assign"
                                 ELSE "backfill",
                          !.unhashed = Tail(org.unhashed),
                          !.hashPath = <<>>]
    /\ UNCHANGED <<fs, dbExists, phase, opts, resumeMode, completedPaths,
                   pendingRecords, walkIdx, pathsCh, extracting, metaCh, moveCh,
                   moving, sent, startJ, startFs, prevExit, runs, tree, result, dirs, cleanup>>
    /\ UNCHANGED <<cap, xdev>>

\* the duplicate flag the organizer gives the record id whose hash is fileHash
isDuplicateOf(j, id, fileHash) ==
    fileHash # "" /\ \E m \in GetByHash(j, fileHash) : m # id

\* a numbering that gives every member after the first the number 2
seqNumOf_m(j, tsKey) ==
    IF CountByTimestampKey(j, tsKey) > 1 THEN 2 ELSE 0

\* the sequence number the organizer gives a record of timestamp key tsKey
seqNumOf(j, tsKey) ==
    LET tsCount == CountByTimestampKey(j, tsKey)
    IN IF tsCount > 1 THEN tsCount ELSE 0

\* an organizer whose path assignment looks up the paths the journal holds
\* and moves on to another suffix when the path is taken
OrgAssign_m ==
    /\ phase = "run"
    /\ org.pc = "assign"
    /\ Len(moveCh) < cap
    /\ LET file == org.file
           id == file.SourcePath
           isDuplicate == isDuplicateOf(journal, id, org.fileHash)
           seqNum == seqNumOf(journal, tsKeyOf(file))
           taken == {journal[q].DestPath : q \in DOMAIN journal}
           destPath == IF computeDestPath(Scanner(opts), file, isDuplicate, seqNum) \in taken
                       THEN computeDestPath(Scanner(opts), file, isDuplicate, seqNum + 2)
                       ELSE computeDestPath(Scanner(opts), file, isDuplicate, seqNum)
       IN /\ journal' = UpdateDestPath(journal, id, destPath, seqNum, isDuplicate)
          /\ moveCh' = Append(moveCh, [RecordID |-> id, SourcePath |-> id,
                                       DestPath |-> destPath,
                                       IsDuplicate |-> isDuplicate])
          /\ sent' = Bump(sent, id)
    /\ org' = OrgIdle
    /\ UNCHANGED <<fs, dbExists, phase, opts, resumeMode, completedPaths,
                   pendingRecords, walkIdx, pathsCh, extracting, metaCh, moving,
                   startJ, startFs, prevExit, runs, tree, result, dirs, cleanup>>
    /\ UNCHANGED <<cap, xdev>>

\* global dedup, sequence numbering, destination path, UpdateDestPath, send
OrgAssign ==
    /\ phase = "run"
    /\ org.pc = "assign"
    /\ Len(moveCh) < cap
    /\ LET file == org.file
           id == file.SourcePath
           isDuplicate == isDuplicateOf(journal, id, org.fileHash)
           seqNum == seqNumOf(journal, tsKeyOf(file))
       IN \E destPath \in {computeDestPath(Scanner(opts), file, isDuplicate, seqNum)} :
          /\ journal' = UpdateDestPath(journal, id, destPath, seqNum, isDuplicate)
          /\ moveCh' = Append(moveCh, [RecordID |-> id, SourcePath |-> id,
                                       DestPath |-> destPath,
                                       IsDuplicate |-> isDuplicate])
          /\ sent' = Bump(sent, id)
    /\ org' = OrgIdle
    /\ UNCHANGED <<fs, dbExists, phase, opts, resumeMode, completedPaths,
                   pendingRecords, walkIdx, pathsCh, extracting, metaCh, moving,
                   startJ, startFs, prevExit, runs, tree, result, dirs, cleanup>>
    /\ UNCHANGED <<cap, xdev>>

\* metaCh is closed and drained: the organizer returns and closes moveCh
OrgDone ==
    /\ phase = "run"
    /\ org.pc = "loop"
    /\ pendingRecords = <<>>
    /\ metaCh = <<>>
    /\ metaClosed
    /\ org' = [org EXCEPT !.pc = "done"]
    /\ UNCHANGED <<fs, journal, dbExists, phase, opts, resumeMode, completedPaths,
                   pendingRecords, walkIdx, pathsCh, extracting, metaCh, moveCh,
                   moving, sent, startJ, startFs, prevExit, runs, tree, result, dirs, cleanup>>
    /\ UNCHANGED <<cap, xdev>>

\* os.Rename(srcPath, destPath) on one filesystem: replaces an existing destination
moveFileImpl(f, srcPath, destPath) ==
    IF ~Exists(f, srcPath) THEN [err |-> "rename: no such file or directory", fs |-> f]
    ELSE IF destPath = <<>> THEN [err |-> "rename: no such file or directory", fs |-> f]
    ELSE [err |-> "", fs |-> Put(Drop(f, {srcPath}), destPath, f[srcPath])]

\* copyFileImpl up to os.Create: opens the source, creates or truncates the destination
copyFileOpen(f, srcPath, destPath) ==
    IF ~Exists(f, srcPath) THEN [err |-> "open: no such file or directory", fs |-> f]
    ELSE IF destPath = <<>> THEN [err |-> "open: no such file or directory", fs |-> f]
    ELSE [err |-> "", fs |-> Put(f, destPath, "partial")]

\* a fallback that reports success once the destination file is created
moveFileStart_m(x, f, srcPath, destPath) ==
    IF x /\ Exists(f, srcPath) /\ destPath # <<>>
    THEN copyFileOpen(f, srcPath, destPath) @@ [fallback |-> FALSE]
    ELSE moveFileImpl(f, srcPath, destPath) @@ [fallback |-> FALSE]

\* moveFileImpl up to the first change of the filesystem: os.Rename, and when
\* it fails with "cross-device link" the open and create of copyFileImpl
moveFileStart(x, f, srcPath, destPath) ==
    IF x /\ Exists(f, srcPath) /\ destPath # <<>>
    THEN copyFileOpen(f, srcPath, destPath) @@ [fallback |-> TRUE]
    ELSE moveFileImpl(f, srcPath, destPath) @@ [fallback |-> FALSE]

\* copyFileImpl from io.Copy on: writes the bytes, stats the source for its mode
copyFileWrite(f, srcPath, destPath) ==
    IF ~Exists(f, srcPath) THEN [err |-> "stat: no such file or directory", fs |-> f]
    ELSE [err |-> "", fs |-> Put(f, destPath, f[srcPath])]

\* a transfer worker that returns without a status update when os.MkdirAll fails
MoverStart_m ==
    /\ phase = "run"
    /\ moveCh # <<>>
    /\ Cardinality(moving) < Concurrency
    /\ moveCh' = Tail(moveCh)
    /\ \E mkdirErr \in BOOLEAN :
        LET job == Head(moveCh)
            r == IF opts.copyFiles
                 THEN copyFileOpen(fs, job.SourcePath, job.DestPath)
                      @@ [fallback |-> FALSE]
                 ELSE moveFileStart(xdev, fs, job.SourcePath, job.DestPath)
        IN IF opts.dryRun
           THEN /\ journal' = UpdateStatus(journal, job.RecordID, StatusDryRun, "")
                /\ UNCHANGED <<fs, moving, dirs>>
           ELSE IF mkdirErr
           THEN UNCHANGED <<fs, moving, journal, dirs>>
           ELSE IF r.err # ""
           THEN /\ journal' = UpdateStatus(journal, job.RecordID, StatusFailed, r.err)
                /\ dirs' = dirs \cup AncestorDirs(job.DestPath)
                /\ UNCHANGED <<fs, moving>>
           ELSE /\ fs' = r.fs
                /\ dirs' = dirs \cup AncestorDirs(job.DestPath)
                /\ moving' = moving \cup
                     {[job |-> job,
                       pc |-> IF opts.copyFiles \/ r.fallback THEN "copying"
                              ELSE "written"]}
                /\ UNCHANGED journal
    /\ UNCHANGED <<dbExists, phase, opts, resumeMode, completedPaths, pendingRecords,
                   walkIdx, pathsCh, extracting, metaCh, org, sent, startJ, startFs,
                   prevExit, runs, tree, result, cleanup>>
    /\ UNCHANGED <<cap, xdev>>

\* a transfer worker receives a job and runs executeMoveJob up to the first
\* change of the filesystem; os.MkdirAll on the destination directory may fail
MoverStart ==
    /\ phase = "run"
    /\ moveCh # <<>>
    /\ Cardinality(moving) < Concurrency
    /\ moveCh' = Tail(moveCh)
    /\ \E mkdirErr \in BOOLEAN :
        LET job == Head(moveCh)
            r == IF opts.copyFiles
                 THEN copyFileOpen(fs, job.SourcePath, job.DestPath)
                      @@ [fallback |-> FALSE]
                 ELSE moveFileStart(xdev, fs, job.SourcePath, job.DestPath)
        IN IF opts.dryRun
           THEN /\ journal' = UpdateStatus(journal, job.RecordID, StatusDryRun, "")
                /\ UNCHANGED <<fs, moving, dirs>>
           ELSE IF mkdirErr
           THEN /\ journal' = UpdateStatus(journal, job.RecordID, StatusFailed,
                                           "mkdir: permission denied")
                /\ UNCHANGED <<fs, moving, dirs>>
           ELSE IF r.err # ""
           THEN /\ journal' = UpdateStatus(journal, job.RecordID, StatusFailed, r.err)
                /\ dirs' = dirs \cup AncestorDirs(job.DestPath)
                /\ UNCHANGED <<fs, moving>>
           ELSE /\ fs' = r.fs
                /\ dirs' = dirs \cup AncestorDirs(job.DestPath)
                /\ moving' = moving \cup
                     {[job |-> job,
                       pc |-> IF opts.copyFiles \/ r.fallback THEN "copying"
                              ELSE "written"]}
                /\ UNCHANGED journal
    /\ UNCHANGED <<dbExists, phase, opts, resumeMode, completedPaths, pendingRecords,
                   walkIdx, pathsCh, extracting, metaCh, org, sent, startJ, startFs,
                   prevExit, runs, tree, result, cleanup>>
    /\ UNCHANGED <<cap, xdev>>

\* the rest of copyFileImpl; in move mode (the cross-device fallback of
\* moveFileImpl) os.Remove of the source follows and may fail
MoverCopy ==
    /\ phase = "run"
    /\ \E m \in moving, removeErr \in BOOLEAN :
          /\ m.pc = "copying"
          /\ removeErr => ~opts.copyFiles
          /\ LET r == copyFileWrite(fs, m.job.SourcePath, m.job.DestPath)
             IN IF r.err # ""
                THEN /\ journal' = UpdateStatus(journal, m.job.RecordID, StatusFailed, r.err)
                     /\ moving' = moving \ {m}
                     /\ UNCHANGED fs
                ELSE IF removeErr
                THEN /\ fs' = r.fs
                     /\ journal' = UpdateStatus(journal, m.job.RecordID, StatusFailed,
                                                "remove: permission denied")
                     /\ moving' = moving \ {m}
                ELSE /\ fs' = IF opts.copyFiles THEN r.fs
                              ELSE Drop(r.fs, {m.job.SourcePath})
                     /\ moving' = (moving \ {m}) \cup {[m EXCEPT !.pc = "written"]}
                     /\ UNCHANGED journal
    /\ UNCHANGED <<dbExists, phase, opts, resumeMode, completedPaths, pendingRecords,
                   walkIdx, pathsCh, extracting, metaCh, org, moveCh, sent, startJ,
                   startFs, prevExit, runs, tree, result, dirs, cleanup>>
    /\ UNCHANGED <<cap, xdev>>

\* the transfer succeeded: UpdateStatus(completed)
MoverComplete ==
    /\ phase = "run"
    /\ \E m \in moving :
          /\ m.pc = "written"
          /\ journal' = UpdateStatus(journal, m.job.RecordID, StatusCompleted, "")
          /\ moving' = moving \ {m}
    /\ UNCHANGED <<fs, dbExists, phase, opts, resumeMode, completedPaths,
                   pendingRecords, walkIdx, pathsCh, extracting, metaCh, org, moveCh,
                   sent, startJ, startFs, prevExit, runs, tree, result, dirs, cleanup>>
    /\ UNCHANGED <<cap, xdev>>

\* a tail of Scan that leaves the dest_index rows in the journal
Finish_m ==
    /\ phase = "run"
    /\ org.pc = "done"
    /\ moveCh = <<>>
    /\ moving = {}
    /\ \E deleteEmptyDirs \in BOOLEAN :
          IF cleanupGuard(opts, deleteEmptyDirs)
          THEN \E order \in SortedByLenDesc(emptyDirs(fs, dirs)) :
                  /\ dirs' = dirs \ emptyDirs(fs, dirs)
                  /\ cleanup' = [deleteEmptyDirs |-> deleteEmptyDirs, removed |-> order]
          ELSE /\ dirs' = dirs
               /\ cleanup' = [deleteEmptyDirs |-> deleteEmptyDirs, removed |-> <<>>]
    /\ result' = populateResultFromJournal(journal, result)
    /\ phase' = "idle"
    /\ prevExit' = "returned"
    /\ org' = OrgIdle
    /\ UNCHANGED <<fs, journal, dbExists, opts, resumeMode, completedPaths,
                   pendingRecords, walkIdx, pathsCh, extracting, metaCh, moveCh,
                   moving, sent, startJ, startFs, runs, tree>>
    /\ UNCHANGED <<cap, xdev>>

\* the tail of Scan once every transfer worker has returned; the
\* deleteEmptyDirs option is drawn where Scan reads it
Finish ==
    /\ phase = "run"
    /\ org.pc = "done"
    /\ moveCh = <<>>
    /\ moving = {}
    /\ \E deleteEmptyDirs \in BOOLEAN :
          IF cleanupGuard(opts, deleteEmptyDirs)
          THEN \E order \in SortedByLenDesc(emptyDirs(fs, dirs)) :
                  /\ dirs' = dirs \ emptyDirs(fs, dirs)
                  /\ cleanup' = [deleteEmptyDirs |-> deleteEmptyDirs, removed |-> order]
          ELSE /\ dirs' = dirs
               /\ cleanup' = [deleteEmptyDirs |-> deleteEmptyDirs, removed |-> <<>>]
    /\ journal' = ClearDestIndex(journal)
    /\ result' = populateResultFromJournal(ClearDestIndex(journal), result)
    /\ phase' = "idle"
    /\ prevExit' = "returned"
    /\ org' = OrgIdle
    /\ UNCHANGED <<fs, dbExists, opts, resumeMode, completedPaths, pendingRecords,
                   walkIdx, pathsCh, extracting, metaCh, moveCh, moving, sent, startJ,
                   startFs, runs, tree>>
    /\ UNCHANGED <<cap, xdev>>

\* the process is stopped (signal handler's os.Exit, or a crash) at any point;
\* nothing of it but the journal and the filesystem is left
Interrupt ==
    /\ phase = "run"
    /\ phase' = "idle"
    /\ prevExit' = "interrupted"
    /\ pendingRecords' = <<>>
    /\ walkIdx' = 1
    /\ pathsCh' = <<>>
    /\ extracting' = {}
    /\ metaCh' = <<>>
    /\ org' = OrgIdle
    /\ moveCh' = <<>>
    /\ moving' = {}
    /\ resumeMode' = FALSE
    /\ completedPaths' = {}
    /\ sent' = EmptyMap
    /\ startJ' = EmptyMap
    /\ startFs' = EmptyMap
    /\ result' = ZeroResult
    /\ UNCHANGED <<fs, journal, dbExists, opts, runs, tree, dirs, cleanup>>
    /\ UNCHANGED <<cap, xdev>>

\* between two runs the user deletes a file of the source tree
UserRemove(p) ==
    /\ phase = "idle"
    /\ dbExists
    /\ runs < MaxRuns
    /\ Under(p, SourceDir)
    /\ fs' = Drop(fs, {p})
    /\ UNCHANGED <<journal, dbExists, phase, opts, resumeMode, completedPaths,
                   pendingRecords, walkIdx, pathsCh, extracting, metaCh, org, moveCh,
                   moving, sent, startJ, startFs, prevExit, runs, tree, result, dirs, cleanup>>
    /\ UNCHANGED <<cap, xdev>>

\* how the code reads and writes each counter the progress reporter prints:
\* s.processed and s.organized through sync/atomic, s.result.TotalFiles by a
\* plain increment and a plain read
CounterAccess ==
    [processed |-> "atomic", organized |-> "atomic", TotalFiles |-> "plain"]

\* the progress reporter's tick, in a goroutine of its own from before Scan
\* is called until it has returned: it prints GetProcessedCount(),
\* GetTotalFiles() and GetOrganizedCount() and changes nothing
Report ==
    /\ phase = "run"
    /\ UNCHANGED vars

Next ==
    \/ \E mode \in Modes : StartRun(mode)
    \/ \E p \in DOMAIN fs : UserRemove(p)
    \/ Walk
    \/ ExtractTake
    \/ ExtractSend
    \/ OrgRequeue
    \/ OrgReceive
    \/ OrgBackfillStat
    \/ OrgBackfillHash
    \/ OrgAssign
    \/ OrgDone
    \/ MoverStart
    \/ MoverCopy
    \/ MoverComplete
    \/ Finish
    \/ Interrupt
    \/ Report

Spec == Init /\ [][Next]_vars

\* the runs of the command the fair specification follows
LiveRuns == 2

LiveNext ==
    \/ \E mode \in Modes : runs < LiveRuns /\ StartRun(mode)
    \/ \E p \in DOMAIN fs : UserRemove(p)
    \/ Walk
    \/ ExtractTake
    \/ ExtractSend
    \/ OrgRequeue
    \/ OrgReceive
    \/ OrgBackfillStat
    \/ OrgBackfillHash
    \/ OrgAssign
    \/ OrgDone
    \/ MoverStart
    \/ MoverCopy
    \/ MoverComplete
    \/ Finish
    \/ Interrupt
    \/ Report

\* two runs of the command in move mode
SeqNext ==
    \/ runs < LiveRuns /\ StartRun("move")
    \/ Walk
    \/ ExtractTake
    \/ ExtractSend
    \/ OrgRequeue
    \/ OrgReceive
    \/ OrgBackfillStat
    \/ OrgBackfillHash
    \/ OrgAssign
    \/ OrgDone
    \/ MoverStart
    \/ MoverComplete
    \/ Finish
    \/ Interrupt
    \/ Report

\* two runs of the command over the tree of three files
SeqSpec == InitWith(SeqTree) /\ [][SeqNext]_vars

\* between two runs the user deletes a file below the destination directory
UserRemoveDest(p) ==
    /\ phase = "idle"
    /\ dbExists
    /\ runs < LiveRuns
    /\ Under(p, DestDir)
    /\ fs' = Drop(fs, {p})
    /\ UNCHANGED <<journal, dbExists, phase, opts, resumeMode, completedPaths,
                   pendingRecords, walkIdx, pathsCh, extracting, metaCh, org, moveCh,
                   moving, sent, startJ, startFs, prevExit, runs, tree, result, dirs, cleanup>>
    /\ UNCHANGED <<cap, xdev>>

\* a source tree of two files of one size and a file of the second one's
\* bytes that lies under the destination directory before the first run
StaleTree == (PA :> "c2" @@ PB :> "c1" @@ DX :> "c1")

StaleNext ==
    \/ SeqNext
    \/ \E p \in DOMAIN fs : UserRemoveDest(p)

\* two runs of the command in move mode, files of the destination being
\* deleted between them
StaleSpec == InitWith(StaleTree) /\ [][StaleNext]_vars

\* the transfer workers are goroutines that range over moveCh until it is
\* closed: a worker that can take or finish a job does so
FairSpec ==
    /\ Init /\ [][LiveNext]_vars
    /\ WF_vars(MoverStart) /\ WF_vars(MoverCopy) /\ WF_vars(MoverComplete)

\* a step of a goroutine of the pipeline, or the tail of Scan
PipelineStep ==
    \/ Walk
    \/ ExtractTake
    \/ ExtractSend
    \/ OrgRequeue
    \/ OrgReceive
    \/ OrgBackfillStat
    \/ OrgBackfillHash
    \/ OrgAssign
    \/ OrgDone
    \/ MoverStart
    \/ MoverCopy
    \/ MoverComplete
    \/ Finish

\* a source tree of two files
TermTree == (PA :> "c1" @@ PB :> "c1")

\* runs with queues that one item fills; the scheduler runs some goroutine
\* that can take a step
TermSpec ==
    /\ InitCap(TermTree, SmallCap) /\ [][LiveNext]_vars
    /\ WF_vars(PipelineStep)

\* two runs of the command with the destinations on the source's filesystem
\* or on another one
XdevSpec ==
    /\ \E f \in Scenarios, x \in BOOLEAN : InitOn(f, ChanCap, x)
    /\ [][LiveNext]_vars

\* ------------------------------------------------------------------ claims
\* Scan has returned and no later run has started
Returned == phase = "idle" /\ prevExit = "returned"

\* the rows that stand for files of the source tree
Records(j) == {p \in DOMAIN j : j[p].Status # StatusDestIndex}

\* the rows the organizer has given a destination
Assigned(j) == {p \in Records(j) : j[p].DestPath # <<>>}

\* the organized rows whose files have the same bytes as the file of row p
ContentGroup(p) == {q \in Assigned(journal) : tree[q] = tree[p]}

\* the files with the bytes of row p that lay under the destination directory
\* before the first run: the originals of an earlier organization
EarlierOriginals(p) ==
    {d \in DOMAIN tree : ~Under(d, SourceDir) /\ tree[d] = tree[p]}

\* C1: after any run, in every group of records whose files have identical
\* content exactly one record is not flagged duplicate (none when the original
\* of the group was in the destination before the first run).
C1_DedupCorrect ==
    Returned =>
        \A p \in Assigned(journal) :
            Cardinality({q \in ContentGroup(p) : ~journal[q].IsDuplicate})
                + Cardinality(EarlierOriginals(p)) = 1

\* the rows that share the timestamp key of row p
KeyGroup(p) ==
    {q \in Records(journal) : journal[q].TimestampKey = journal[p].TimestampKey}

IsDigitTok(t) == t \in {"0", "1", "2", "3", "4", "5", "6", "7", "8", "9"}

\* the file name of path ends, before its extension, in _ and three digits
HasSeqSuffix(path) ==
    LET b == TrimSuffix(Base(path), Ext(path))
        n == Len(b)
    IN /\ n >= 4
       /\ b[n - 3] = "_"
       /\ IsDigitTok(b[n - 2]) /\ IsDigitTok(b[n - 1]) /\ IsDigitTok(b[n])

\* C2: once a run has organized all files, every record of a timestamp-key
\* group of more than one record has a non-zero sequence number and a
\* destination name with a 3-digit sequence suffix.
C2_SequencingConsistent ==
    Returned =>
        \A p \in Records(journal) :
            Cardinality(KeyGroup(p)) > 1 =>
                /\ journal[p].SequenceNum # 0
                /\ HasSeqSuffix(journal[p].DestPath)

\* C3: no two distinct records are assigned the same non-empty destination.
C3_NoConflictingDest ==
    \A p, q \in Records(journal) :
        p # q /\ journal[p].DestPath # <<>> =>
            journal[p].DestPath # journal[q].DestPath

Organized(j) == {p \in Records(j) : j[p].Status \in {StatusCompleted, StatusDryRun}}

\* the files outside the source tree
DestFiles(f) == [p \in {q \in DOMAIN f : ~Under(q, SourceDir)} |-> f[p]]

\* the current run was started after a run that returned
AfterReturn == phase = "run" /\ prevExit = "returned"

\* C4 (as stated): a run that follows a finished run emits no transfer job for
\* a path whose record is completed or dry_run, changes no destination file and
\* leaves the number of completed records unchanged.
C4_Idempotent ==
    AfterReturn =>
        /\ \A p \in DOMAIN sent : p \notin Organized(startJ)
        /\ DestFiles(fs) = DestFiles(startFs)
        /\ Cardinality({p \in Records(journal) : journal[p].Status = StatusCompleted})
             = Cardinality({p \in Records(startJ) : startJ[p].Status = StatusCompleted})

\* the earlier runs left every file of the source tree journaled and every
\* record completed or dry_run
AllOrganized ==
    /\ Records(startJ) # {}
    /\ Records(startJ) = Organized(startJ)
    /\ \A p \in DOMAIN startFs : Under(p, SourceDir) => p \in Records(startJ)

\* C4 (amended): a run that follows a finished run which left every record
\* completed or dry_run emits no transfer job at all, changes no destination
\* file and leaves every record as it was.
C4_IdempotentWhenAllOrganized ==
    AfterReturn /\ AllOrganized =>
        /\ sent = EmptyMap
        /\ moveCh = <<>> /\ moving = {}
        /\ DestFiles(fs) = DestFiles(startFs)
        /\ \A p \in Records(startJ) : p \in DOMAIN journal /\ journal[p] = startJ[p]
        /\ Records(journal) = Records(startJ)

\* C4 witness: the second run over a copied tree has walked past every source
\* file, all of them organized before, and its organizer has returned
C4_Witness ==
    /\ AfterReturn /\ AllOrganized
    /\ org.pc = "done"
    /\ \E p \in Organized(startJ) : Exists(fs, p) /\ startJ[p].Status = StatusCompleted

\* the paths the walker has emitted that are still in the pipeline
InPipeline ==
    {pathsCh[i] : i \in 1..Len(pathsCh)}
        \cup {r.SourcePath : r \in extracting}
        \cup {metaCh[i].SourcePath : i \in 1..Len(metaCh)}

\* C5: in resume mode the walker never emits a source path whose record was
\* completed or dry_run at startup, and the completed paths loaded at startup
\* are exactly the source paths of the records in those two statuses.
C5_ResumeSkip ==
    phase = "run" /\ resumeMode =>
        /\ \A p \in InPipeline : p \notin Organized(startJ)
        /\ completedPaths = Organized(startJ)

\* C5 witness: a resume run whose walker has passed a file that is still in
\* the source tree and was organized before, next to a record that was not
C5_Witness ==
    /\ phase = "run" /\ resumeMode
    /\ \E i \in 1..Len(WalkOrder) :
          /\ i < walkIdx
          /\ WalkOrder[i] \in Organized(startJ)
          /\ Exists(fs, WalkOrder[i])
    /\ \E q \in Records(startJ) : startJ[q].Status \in {StatusPending, StatusFailed}

\* the records a resume run re-queues: failed, or pending with a destination,
\* at startup, and the source file is there
Requeued ==
    {p \in Records(startJ) :
        /\ startJ[p].Status \in {StatusPending, StatusFailed}
        /\ startJ[p].DestPath # <<>>
        /\ Exists(startFs, p)}

\* the records loaded at startup that the organizer has not re-queued yet
PendingNow == {pendingRecords[i].SourcePath : i \in 1..Len(pendingRecords)}

\* the jobs that are queued for or held by the transfer workers
JobsInFlight == {moveCh[i] : i \in 1..Len(moveCh)} \cup {m.job : m \in moving}

\* C6: in a resume run every record that was failed or pending with a
\* destination at startup and whose source exists is sent to the transfer
\* stage exactly once, with the destination and duplicate flag of the journal,
\* and the organizer never takes it up again: its destination, sequence number
\* and duplicate flag stay as they were.
C6_ResumeRequeueOnce ==
    (phase = "run" \/ Returned) /\ resumeMode =>
        \A p \in Requeued :
            /\ IF p \in PendingNow THEN p \notin DOMAIN sent
               ELSE p \in DOMAIN sent /\ sent[p] = 1
            /\ journal[p].DestPath = startJ[p].DestPath
            /\ journal[p].SequenceNum = startJ[p].SequenceNum
            /\ journal[p].IsDuplicate = startJ[p].IsDuplicate
            /\ \A job \in JobsInFlight :
                  job.RecordID = p =>
                      /\ job.SourcePath = p
                      /\ job.DestPath = startJ[p].DestPath
                      /\ job.IsDuplicate = startJ[p].IsDuplicate
            /\ ~(org.pc \in {"assign", "backfill", "bfhash"} /\ org.file.SourcePath = p)

\* C6 witness: a resume run has returned after re-queueing a pending and a
\* failed record, both rediscovered by the walker
C6_Witness ==
    /\ Returned /\ resumeMode
    /\ \E p, q \in Requeued :
          /\ startJ[p].Status = StatusPending
          /\ startJ[q].Status = StatusFailed
          /\ sent[p] = 1 /\ sent[q] = 1

\* C7: after an interruption or per-file failures, the next run brings every
\* record that is not completed or dry_run and whose source file exists to a
\* terminal status.
C7_EveryUnfinishedRetried ==
    Returned /\ resumeMode =>
        \A p \in Records(startJ) :
            p \notin Organized(startJ) /\ Exists(startFs, p) =>
                journal[p].Status \in {StatusCompleted, StatusDryRun, StatusFailed}

\* C8: a transfer whose destination path holds a file already changes no file
\* and sets the record's status to failed.
C8_CollisionAbort ==
    [][ ( /\ phase = "run" /\ phase' = "run"
          /\ moveCh # <<>> /\ moveCh' = Tail(moveCh)
          /\ ~opts.dryRun
          /\ Exists(fs, Head(moveCh).DestPath) )
        => /\ fs' = fs
           /\ journal'[Head(moveCh).RecordID].Status = StatusFailed ]_vars

\* the records whose transfer was writing the destination when the earlier run
\* stopped: pending, source present, destination half-written
HalfWritten ==
    {p \in Records(startJ) :
        /\ startJ[p].Status = StatusPending
        /\ startJ[p].DestPath # <<>>
        /\ Exists(startFs, p)
        /\ Exists(startFs, startJ[p].DestPath)
        /\ startFs[startJ[p].DestPath] = "partial"}

\* C9: a record whose destination was left half-written by an interrupted
\* transfer ends the next run as failed.
C9_HalfWrittenFails ==
    Returned /\ resumeMode =>
        \A p \in HalfWritten : journal[p].Status = StatusFailed

\* C10: a re-queued record whose source file is gone is marked completed when
\* a file exists at its destination path and failed otherwise, and no transfer
\* job is emitted for it.
C10_ResumeMissingSource ==
    [][ ( /\ phase = "run" /\ phase' = "run"
          /\ pendingRecords # <<>> /\ pendingRecords' = Tail(pendingRecords)
          /\ ~Exists(fs, Head(pendingRecords).SourcePath) )
        => /\ journal'[Head(pendingRecords).SourcePath].Status =
                 IF Exists(fs, Head(pendingRecords).DestPath)
                 THEN StatusCompleted ELSE StatusFailed
           /\ moveCh' = moveCh
           /\ sent' = sent
           /\ fs' = fs ]_vars

\* C10 witness: in one resume run the organizer has re-queued a record whose
\* source was gone and destination there, now completed, and one whose source
\* and destination were both gone, now failed, and emitted no job for either
C10_Witness ==
    /\ phase = "run" /\ resumeMode
    /\ pendingRecords = <<>>
    /\ \E p, q \in Records(startJ) :
          /\ startJ[p].Status = StatusPending /\ startJ[q].Status = StatusPending
          /\ ~Exists(startFs, p) /\ Exists(startFs, startJ[p].DestPath)
          /\ ~Exists(startFs, q) /\ startJ[q].DestPath # <<>>
          /\ ~Exists(startFs, startJ[q].DestPath)
          /\ journal[p].Status = StatusCompleted
          /\ journal[q].Status = StatusFailed
          /\ journal[q].ErrorMessage = "source file missing on resume"
          /\ p \notin DOMAIN sent /\ q \notin DOMAIN sent

\* the organizer receives the result of a file whose path is journaled already
ReceivesJournaled ==
    /\ phase = "run" /\ phase' = "run"
    /\ metaCh # <<>> /\ metaCh' = Tail(metaCh)
    /\ ~Head(metaCh).Err
    /\ Head(metaCh).SourcePath \in Records(journal)

\* C11: the journal holds one record per source path: the insert for a path
\* that is journaled already returns ErrAlreadyExists, creates no record and
\* leaves the existing record as it is.
C11_UniqueSourcePath ==
    [][ ReceivesJournaled =>
            LET mr == Head(metaCh)
                ins == InsertFile(journal, mr.SourcePath, NewRecord(mr))
            IN /\ ins.err = "ErrAlreadyExists"
               /\ ins.j = journal
               /\ Cardinality(DOMAIN journal') = Cardinality(DOMAIN journal)
               /\ journal'[mr.SourcePath] = journal[mr.SourcePath] ]_vars

\* C11 witness: in a resume run the organizer has received the result of a
\* file that was journaled, with a destination, by an earlier run
C11_Witness ==
    /\ phase = "run" /\ resumeMode
    /\ metaClosed /\ metaCh = <<>>
    /\ result.ProcessedFiles >= 1
    /\ Records(journal) = Records(startJ)
    /\ \E p \in Assigned(startJ) : Exists(startFs, p) /\ journal[p].DestPath = startJ[p].DestPath

TerminalStatuses == {StatusCompleted, StatusFailed, StatusDryRun}

\* C12: a record's status only changes from pending to completed, failed or
\* dry_run, or from failed to pending at the start of a resume run; no row
\* becomes dest_index or stops being dest_index.
C12_StatusLifecycle ==
    [][ \A p \in DOMAIN journal \cap DOMAIN journal' :
            journal'[p].Status # journal[p].Status =>
                \/ /\ journal[p].Status = StatusPending
                   /\ journal'[p].Status \in TerminalStatuses
                   /\ phase = "run"
                \/ /\ journal[p].Status = StatusFailed
                   /\ journal'[p].Status = StatusPending
                   /\ phase = "idle" /\ phase' = "run" /\ resumeMode' ]_vars

\* C12 witness: a record that failed in an earlier run, was reset to pending at
\* the start of this run and is completed now
C12_Witness ==
    /\ phase = "run" /\ resumeMode
    /\ \E p \in Records(startJ) :
          /\ startJ[p].Status = StatusFailed
          /\ journal[p].Status = StatusCompleted

\* the jobs for record p that are queued for or held by the transfer workers
JobsFor(p) ==
    Cardinality({i \in 1..Len(moveCh) : moveCh[i].RecordID = p})
        + Cardinality({m \in moving : m.job.RecordID = p})

\* C13: within one run a record is the subject of at most one transfer job,
\* and once its terminal status is written no job for it is left that could
\* write another one.
C13_OneTerminalTransition ==
    phase = "run" =>
        \A p \in Records(journal) :
            /\ p \in DOMAIN sent => sent[p] = 1
            /\ JobsFor(p) <= 1
            /\ p \in PendingNow => p \notin DOMAIN sent /\ JobsFor(p) = 0
            /\ journal[p].Status \in TerminalStatuses =>
                   JobsFor(p) = 0 /\ p \notin PendingNow

\* C13 witness: a resume run with two transfer workers has re-queued a record,
\* the walker has rediscovered its file, and its one job has ended
C13_Witness ==
    /\ phase = "run" /\ resumeMode /\ org.pc = "done"
    /\ result.ProcessedFiles >= 1
    /\ \E p \in Requeued :
          /\ sent[p] = 1
          /\ journal[p].Status \in TerminalStatuses
          /\ \E q \in DOMAIN sent : q # p

DestTuple(r) == <<r.DestPath, r.SequenceNum, r.IsDuplicate>>

\* C15: destination path, sequence number and duplicate flag are written by
\* the organizer's one update for the file it is processing, and are not
\* modified once the record is completed.
C15_DestTupleImmutable ==
    [][ \A p \in DOMAIN journal \cap DOMAIN journal' :
            DestTuple(journal'[p]) # DestTuple(journal[p]) =>
                /\ journal[p].Status # StatusCompleted
                /\ org.pc = "assign" /\ org.file.SourcePath = p
                /\ journal[p].DestPath = <<>>
                /\ journal'[p].DestPath # <<>> ]_vars

\* C15 witness: a resume run has rediscovered the file of a record completed
\* in this run, and the record has the destination it had at startup
C15_Witness ==
    /\ phase = "run" /\ resumeMode /\ org.pc = "done"
    /\ result.ProcessedFiles >= 1
    /\ \E p \in Requeued :
          /\ journal[p].Status = StatusCompleted
          /\ Exists(fs, p)
          /\ DestTuple(journal[p]) = DestTuple(startJ[p])

\* the rows that got their hash in this step
HashedNow ==
    {p \in DOMAIN journal' :
        journal'[p].Hash # "" /\ (p \in DOMAIN journal => journal[p].Hash = "")}

\* C16 (as stated): a hash is computed only for a row whose size is journaled
\* at least twice (dest_index rows included) at that time, so every row with a
\* hash has another row of its size.
C16_LazyHashing ==
    /\ [](\A p \in DOMAIN journal :
             journal[p].Hash # "" =>
                 \E q \in DOMAIN journal :
                     q # p /\ journal[q].FileSize = journal[p].FileSize)
    /\ [][ \A p \in HashedNow :
               CountByFileSize(journal', journal'[p].FileSize) >= 2 ]_vars

\* C16 (amended): a hash is computed only for a row whose size is journaled at
\* least twice (dest_index rows included) at the time it is computed; the
\* other row of that size may be an unhashed dest_index row that is removed
\* later.
C16_HashOnlyOnSizeCollision ==
    [][ \A p \in HashedNow :
            CountByFileSize(journal', journal'[p].FileSize) >= 2 ]_vars

\* C16 witness: the organizer has finished a file whose size no other row has
\* without hashing it, its transfer is done and the run has returned
C16_Witness ==
    /\ Returned
    /\ \E p \in Records(journal) :
          /\ journal[p].Status = StatusCompleted
          /\ journal[p].Hash = ""
          /\ CountByFileSize(journal, journal[p].FileSize) = 1
          /\ p \in DOMAIN sent

\* the file of row p can be found: at its source path, or at its recorded
\* destination path when the source is gone
Locatable(f, j, p) ==
    Exists(f, p) \/ (j[p].DestPath # <<>> /\ Exists(f, j[p].DestPath))

\* C17: when the organizer finishes a file whose size another row shares,
\* every row of that size whose file can be found has a hash.
C17_BackfillComplete ==
    [][ ( /\ phase = "run" /\ phase' = "run"
          /\ org.pc = "assign" /\ org'.pc = "loop"
          /\ CountByFileSize(journal, org.file.FileSize) >= 2 )
        => \A p \in DOMAIN journal' :
               journal'[p].FileSize = org.file.FileSize /\ Locatable(fs', journal', p)
                   => journal'[p].Hash # "" ]_vars

\* C18: a source file with the bytes of a media file that lay under the
\* destination directory before the run is marked duplicate when the organizer
\* assigns its destination.
C18_CrossRunDedup ==
    \A p \in Assigned(journal) :
        EarlierOriginals(p) # {} => journal[p].IsDuplicate

\* C18 witness: a run has returned after transferring, as a duplicate, a source
\* file with the bytes of a file of the destination directory
C18_Witness ==
    /\ Returned
    /\ \E p \in Assigned(journal) :
          /\ EarlierOriginals(p) # {}
          /\ journal[p].IsDuplicate
          /\ journal[p].Status = StatusCompleted
          /\ \E d \in EarlierOriginals(p) :
                d \in DOMAIN journal /\ journal[d].Status = StatusDestIndex
                    /\ journal[d].Hash = journal[p].Hash

\* the placeholder rows of the files found in the destination directories
DestIndexRows(j) == {d \in DOMAIN j : j[d].Status = StatusDestIndex}

\* C19: when a run returns no dest_index row without a hash is left; a
\* dest_index row with a hash is never removed, re-hashed or overwritten, by
\* the end of the run, the pre-indexing of the next run or anything else.
C19_DestIndexLifecycle ==
    /\ [](Returned => \A d \in DestIndexRows(journal) : journal[d].Hash # "")
    /\ [][ \A d \in DestIndexRows(journal) :
               journal[d].Hash # "" =>
                   d \in DOMAIN journal' /\ journal'[d] = journal[d] ]_vars

\* C19 witness: the run after a returned run has pre-indexed the destination:
\* a hashed dest_index row of the earlier run is still there, next to a new row
\* without a hash
C19_Witness ==
    /\ AfterReturn
    /\ \E d \in DestIndexRows(startJ) :
          /\ startJ[d].Hash # ""
          /\ d \in DOMAIN journal /\ journal[d] = startJ[d]
    /\ DestIndexRows(startJ) = {d \in DestIndexRows(startJ) : startJ[d].Hash # ""}
    /\ \E e \in DestIndexRows(journal) : journal[e].Hash = ""

\* C20: when Scan returns, the result's counts are those of the journal:
\* organized = completed + dry_run records, errors = failed records,
\* duplicates = records flagged duplicate, total = all records; dest_index rows
\* are counted in none of them.
C20_StatsFromJournal ==
    Returned =>
        /\ result.OrganizedFiles = Cardinality(Organized(journal))
        /\ result.ErrorCount =
               Cardinality({p \in Records(journal) : journal[p].Status = StatusFailed})
        /\ result.DuplicateCount =
               Cardinality({p \in Records(journal) : journal[p].IsDuplicate})
        /\ result.TotalFiles = Cardinality(Records(journal))

\* C20 witness: a run has returned with a completed record, a failed record, a
\* duplicate and a dest_index row in the journal
C20_Witness ==
    /\ Returned
    /\ DestIndexRows(journal) # {}
    /\ result.OrganizedFiles >= 1
    /\ result.ErrorCount >= 1
    /\ result.DuplicateCount >= 1

\* the source files the two runs have seen: those the interrupted run journaled
\* and those the walker of the restarted run finds in the source tree
SeenAcrossRuns ==
    Records(startJ)
        \cup {p \in DOMAIN startFs : Under(p, SourceDir) /\ WalkAccepts(p, FALSE, {})}

\* the files among them whose metadata can be read
ExtractedAcrossRuns ==
    Records(startJ) \cup {p \in SeenAcrossRuns : Exists(startFs, p)}

\* the files on disk that the runs have written: outside the source tree and
\* not there before the first run
WrittenFiles(f) == {d \in DOMAIN f : ~Under(d, SourceDir) /\ d \notin DOMAIN tree}

\* the contents of the files of the source tree
SourceContents == {tree[p] : p \in {q \in DOMAIN tree : Under(q, SourceDir)}}

\* Scan returns in a run that was started after an interrupted run
RestartReturns ==
    /\ phase = "run" /\ phase' = "idle"
    /\ prevExit = "interrupted" /\ prevExit' = "returned"

\* every file the runs have written is the recorded destination of a record,
\* and no content has more written files than source files
OneDestinationPerSource(f, j) ==
    /\ \A d \in WrittenFiles(f) : \E p \in Records(j) : j[p].DestPath = d
    /\ \A c \in SourceContents :
          Cardinality({d \in WrittenFiles(f) : f[d] = c})
              <= Cardinality({p \in DOMAIN tree : Under(p, SourceDir) /\ tree[p] = c})

OrgReceives == phase = "run" /\ phase' = "run" /\ metaCh # <<>> /\ metaCh' = Tail(metaCh)

\* the media files of the source tree that the walker's filter lets through
WalkableFiles(f) == {p \in DOMAIN f : Under(p, SourceDir) /\ WalkAccepts(p, FALSE, {})}

\* C22: every path the walker emits is either still in the pipeline or counted
\* once, as processed or as skipped; a failed extraction is counted as skipped,
\* creates no record and no transfer job and lets the organizer go on; any
\* other result leaves the path with a record; the skipped count reaches the
\* final result, and when Scan returns every media file of the source tree has
\* a record unless its metadata cannot be read.
C22_ExtractionFailureCounted ==
    /\ [](phase = "run" =>
             result.TotalFiles = result.ProcessedFiles + result.SkippedFiles
                 + Len(pathsCh) + Cardinality(extracting) + Len(metaCh))
    /\ [](Returned =>
             \A p \in WalkableFiles(fs) :
                 IF Exists(fs, p) THEN p \in Records(journal)
                 ELSE p \notin DOMAIN journal /\ result.SkippedFiles >= 1)
    /\ [][ /\ OrgReceives /\ Head(metaCh).Err =>
                 /\ result'.SkippedFiles = result.SkippedFiles + 1
                 /\ result'.ProcessedFiles = result.ProcessedFiles
                 /\ journal' = journal
                 /\ moveCh' = moveCh /\ sent' = sent
                 /\ org'.pc = "loop"
           /\ OrgReceives /\ ~Head(metaCh).Err =>
                 /\ result'.SkippedFiles = result.SkippedFiles
                 /\ result'.ProcessedFiles = result.ProcessedFiles + 1
                 /\ Head(metaCh).SourcePath \in Records(journal')
           /\ phase = "run" /\ phase' = "idle" /\ prevExit' = "returned" =>
                 result'.SkippedFiles = result.SkippedFiles ]_vars

\* C22 witness: Scan has returned with one file skipped, a dangling link that
\* has no record, and with the other file of the tree transferred
C22_Witness ==
    /\ Returned
    /\ result.SkippedFiles = 1
    /\ \E p \in WalkableFiles(fs) : ~Exists(fs, p) /\ p \notin DOMAIN journal
    /\ \E q \in Records(journal) : journal[q].Status = StatusCompleted /\ q \in DOMAIN sent

\* the record of path p has a terminal status
HasTerminalStatus(p) == p \in Records(journal) /\ journal[p].Status \in TerminalStatuses

\* C23: every transfer job the organizer emits gets a terminal status unless
\* the process is stopped first; a job leaves the transfer stage only with a
\* terminal status written, whatever happens to the other jobs; a failed record
\* carries the error message, a completed or dry_run record none.
C23_FailuresLocal ==
    /\ (phase = "run" /\ JobsInFlight # {})
          ~> (phase = "idle" \/ (JobsInFlight = {} /\ \A p \in DOMAIN sent : HasTerminalStatus(p)))
    /\ [][ phase = "run" /\ phase' = "run" =>
               \A job \in JobsInFlight :
                   \/ job \in JobsInFlight'
                   \/ journal'[job.RecordID].Status \in TerminalStatuses ]_vars
    /\ [](\A p \in Records(journal) :
             /\ journal[p].Status = StatusFailed => journal[p].ErrorMessage # ""
             /\ journal[p].Status \in {StatusCompleted, StatusDryRun}
                    => journal[p].ErrorMessage = "")

\* C23 witness: every job of the run has been executed; one has failed with
\* its error message and another one is completed
C23_Witness ==
    /\ phase = "run" /\ org.pc = "done" /\ moveCh = <<>> /\ moving = {}
    /\ \E p, q \in DOMAIN sent :
          /\ journal[p].Status = StatusFailed /\ journal[p].ErrorMessage # ""
          /\ journal[q].Status = StatusCompleted

\* a transfer worker takes the job at the head of moveCh
MoverTakes == phase = "run" /\ phase' = "run" /\ moveCh # <<>> /\ moveCh' = Tail(moveCh)

\* C24: in a dry run no step changes a file or a directory, under the source
\* or the destination, the return of Scan removes no directory, and a transfer
\* worker only sets the status of its job's record to dry_run.
C24_DryRunFilesystemUnchanged ==
    [][ phase = "run" /\ opts.dryRun =>
            /\ fs' = fs
            /\ dirs' = dirs
            /\ cleanup'.removed = <<>>
            /\ MoverTakes =>
                  /\ journal' = [journal EXCEPT ![Head(moveCh).RecordID].Status = StatusDryRun]
                  /\ moving' = moving ]_vars

\* C24 witness: a dry run with the cleanup option set has returned: its jobs
\* left their records dry_run, the files are where they were, and the empty
\* directories of the source tree are still there
C24_Witness ==
    /\ Returned /\ opts.dryRun
    /\ cleanup.deleteEmptyDirs
    /\ fs = tree /\ dirs = InitDirs(tree)
    /\ emptyDirs(fs, dirs) # {}
    /\ Cardinality(DOMAIN sent) = 2
    /\ \A p \in DOMAIN sent : journal[p].Status = StatusDryRun

\* the directories of a sequence
Range(q) == {q[i] : i \in 1..Len(q)}

\* the number of path elements of a cleaned absolute path
Depth(p) == Cardinality({i \in 1..Len(p) : p[i] = SEP})

\* Scan returns
ScanReturns == phase = "run" /\ phase' = "idle" /\ prevExit' = "returned"

\* guard and frame of the cleanup: directories are removed only by the return
\* of Scan, with the option set and in move mode; only directories below the
\* source directory that are empty are removed, never the source directory
CleanupGuarded ==
    /\ ~ScanReturns => dirs \subseteq dirs'
    /\ ScanReturns =>
          /\ dirs' \subseteq dirs
          /\ dirs \ dirs' = Range(cleanup'.removed)
          /\ dirs # dirs' =>
                cleanup'.deleteEmptyDirs /\ ~opts.dryRun /\ ~opts.copyFiles
          /\ \A d \in dirs \ dirs' :
                Under(d, SourceDir) /\ d # SourceDir /\ IsEmptyDir(fs, dirs, d)
          /\ SourceDir \in dirs'

ProcessExits == phase = "run" /\ phase' = "idle" /\ prevExit' = "interrupted"

\* C25: when the process exits on an interrupt signal no transfer is in
\* flight: every job a transfer worker has taken has its terminal status in the
\* journal.
C25_GracefulCancel ==
    [][ ProcessExits => moving = {} ]_vars

\* a resume run starts
ResumeStarts == phase = "idle" /\ phase' = "run" /\ resumeMode'

\* C26: ResetFailed turns every failed row to pending with an empty error
\* message, leaves every other row and every other column as it is, returns the
\* number of rows it has changed, and leaves no failed row; a resume run starts
\* with the journal it leaves.
C26_ResetFailed ==
    /\ [](LET r == ResetFailed(journal)
          IN /\ DOMAIN r = DOMAIN journal
             /\ \A p \in DOMAIN journal :
                   r[p] = IF journal[p].Status = StatusFailed
                          THEN [journal[p] EXCEPT !.Status = StatusPending,
                                                  !.ErrorMessage = ""]
                          ELSE journal[p]
             /\ ResetFailedCount(journal)
                    = Cardinality({p \in DOMAIN journal : r[p] # journal[p]})
             /\ Stats(r, StatusFailed) = 0)
    /\ [][ ResumeStarts =>
               /\ Stats(journal', StatusFailed) = 0
               /\ \A p \in Records(journal) :
                     journal'[p] = ResetFailed(journal)[p] ]_vars

\* C26 witness: a resume run has started from a journal with a failed record
\* that carries an error message and a hash, next to a completed record: the
\* first is pending without a message, the second as it was
C26_Witness ==
    /\ phase = "run" /\ resumeMode /\ walkIdx = 1 /\ Len(pendingRecords) = 1
    /\ \E p, q \in Records(startJ) :
          /\ startJ[p].Status = StatusFailed
          /\ startJ[p].ErrorMessage # "" /\ startJ[p].Hash # ""
          /\ journal[p] = [startJ[p] EXCEPT !.Status = StatusPending, !.ErrorMessage = ""]
          /\ startJ[q].Status = StatusCompleted
          /\ journal[q] = startJ[q]
          /\ ResetFailedCount(startJ) = 1

\* the media record of the source file p: what the extractor reads from it
MediaFileOf(p) == ExtractFileMetadata(tree, p)

SeqSuffixIs(path, d) ==
    LET b == TrimSuffix(Base(path), Ext(path))
        n == Len(b)
    IN n >= 4 /\ SubSeq(b, n - 3, n) = <<"_">> \o d

\* the source tree of two JPEGs with the same bytes and the same timestamp
\* 2024-01-15 10:30:00
TwoIdentical == (PA :> "c1" @@ PB :> "c1")

\* C28: after a run over two JPEGs with the same bytes and the same timestamp
\* both records are hashed; one is not a duplicate, has sequence number 1 and
\* the destination <dest>/jpg/2024/2024-01/2024-01-15/<timestamp...>_001.jpg;
\* the other is a duplicate, has sequence number 2 and a destination under a
\* duplicates folder that ends in _002.jpg.
C28_TwoIdenticalFiles ==
    Returned /\ tree = TwoIdentical /\ Assigned(journal) = {PA, PB} =>
        \E p, q \in {PA, PB} :
            /\ p # q
            /\ journal[p].Hash # "" /\ journal[q].Hash # ""
            /\ ~journal[p].IsDuplicate
            /\ journal[p].SequenceNum = 1
            /\ Dir(journal[p].DestPath)
                   = Join(<<DestDir, <<"jpg">>, <<"2024">>, <<"2024", "-", "01">>,
                            <<"2024", "-", "01", "-", "15">>>>)
            /\ HasPrefix(Base(journal[p].DestPath), FormatStamp(T1))
            /\ SeqSuffixIs(journal[p].DestPath, <<"0", "0", "1">>)
            /\ Ext(journal[p].DestPath) = <<".jpg">>
            /\ journal[q].IsDuplicate
            /\ journal[q].SequenceNum = 2
            /\ \E i \in 1..Len(journal[q].DestPath) : journal[q].DestPath[i] = "duplicates"
            /\ SeqSuffixIs(journal[q].DestPath, <<"0", "0", "2">>)
            /\ Ext(journal[q].DestPath) = <<".jpg">>

\* the directory a per-extension destination is configured to
OverrideDir == <<SEP, "ovr">>

\* the configurations of the claim: both schemes, with and without a unified
\* destination, with and without a destination for images, and an override
\* for the extension jpg
OverrideConfigs ==
    {[BaseScanner EXCEPT !.scheme = sch, !.destination = dst,
                         !.destinationDirs = dirsOf,
                         !.extensionDirs = (<<"jpg">> :> OverrideDir)]
        @@ [noOriginalName |-> FALSE] :
        sch \in {"extension_first", "date_first"},
        dst \in {<<>>, DestDir},
        dirsOf \in {(TypeVideo :> DestDir), (TypeImage :> DestDir)}}

\* <YYYY>/<YYYY-MM>/<YYYY-MM-DD> of the timestamp t
DateStructure(t) ==
    Join(<<<<t.y>>, <<t.y, "-", t.mo>>, <<t.y, "-", t.mo, "-", t.d>>>>)

\* C29: for a file whose extension has a per-extension destination the
\* assigned directory is <override>/<YYYY>/<YYYY-MM>/<YYYY-MM-DD>, with the
\* duplicates folder after the override for a duplicate, under both schemes
\* and whatever the unified and per-media-type destinations are, also when no
\* destination is configured for images; checked for the .jpg files of the
\* source tree.
C29_ExtensionOverride ==
    \A p \in {q \in WalkableFiles(tree) : Exists(tree, q) /\ Ext(q) = <<".jpg">>} :
        \A s \in OverrideConfigs : \A isDuplicate \in BOOLEAN : \A seqNum \in {0, 2} :
            Dir(computeDestPath(s, MediaFileOf(p), isDuplicate, seqNum))
                = IF isDuplicate
                  THEN Join(<<OverrideDir, s.duplicatesDir,
                              DateStructure(MediaFileOf(p).CreationTime)>>)
                  ELSE Join(<<OverrideDir, DateStructure(MediaFileOf(p).CreationTime)>>)

\* p names the source directory or an entry below it
InsideSource(p) == Resolve(p) = SourceDir \/ Under(Resolve(p), SourceDir)

\* configurations of the destination directories: the destination of the
\* images is apart from the source directory, equal to it, inside it or
\* around it; an extension may have a directory of its own, which the
\* configuration file gives as written (absolute, or relative as in "d2")
SelfIndexConfigs ==
    {[Scanner(opts) EXCEPT !.destinationDirs = (TypeImage :> d), !.extensionDirs = e] :
        d \in {DestDir, SourceDir, Join(<<SourceDir, <<"d2">>>>), <<SEP>>},
        e \in {<<>>, (<<"jpg">> :> DestDir), (<<"jpg">> :> <<"d2">>)}}

\* C31: whatever the destination directories are, pre-run indexing inserts no
\* dest_index row for the source directory or an entry below it, and inserts
\* at most one row per destination file.
C31_NoSelfIndexing ==
    \A s \in SelfIndexConfigs :
        LET j == preIndexDestinations(s, EmptyMap, fs)
        IN /\ \A p \in DOMAIN j : ~InsideSource(p)
           /\ \A p, q \in DOMAIN j : Resolve(p) = Resolve(q) => p = q

\* the progress reporter's goroutine is running
ReporterAlive == ENABLED Report

\* the next step of a goroutine of the pipeline writes the counter c: the
\* walker counts an accepted path and the return of Scan stores the journal's
\* count (TotalFiles), the organizer counts a received record (processed), a
\* transfer worker counts a finished job (organized)
WritePending(c) ==
    /\ phase = "run"
    /\ CASE c = "TotalFiles" ->
              \/ /\ walkIdx <= Len(WalkOrder)
                 /\ WalkOrder[walkIdx] \in DOMAIN fs
                 /\ WalkAccepts(WalkOrder[walkIdx], resumeMode, completedPaths)
              \/ org.pc = "done" /\ moveCh = <<>> /\ moving = {}
         [] c = "processed" ->
              org.pc = "loop" /\ pendingRecords = <<>> /\ metaCh # <<>> /\ ~Head(metaCh).Err
         [] c = "organized" ->
              \/ \E m \in moving : m.pc = "written"
              \/ opts.dryRun /\ moveCh # <<>>

\* C32: no counter the progress reporter reads is about to be written by a
\* goroutine of the pipeline other than through an atomic operation while the
\* reporter runs.
C32_CountersRaceFree ==
    \A c \in DOMAIN CounterAccess :
        ReporterAlive /\ WritePending(c) => CounterAccess[c] = "atomic"

\* the directory entry at p is a symbolic link (the links of the model are
\* the dangling ones)
IsSymlink(f, p) == p \in DOMAIN f /\ f[p] = Dangling

\* the walker's callback handles the entry WalkOrder[walkIdx]
WalkerSteps == phase = "run" /\ phase' = "run" /\ walkIdx' = walkIdx + 1

\* the entries the walk stage is to emit: files that are not symbolic links,
\* have a recognized media extension and a name that does not start with
\* "._", are not storage files of the journal and, in resume mode, are not in
\* the completed set
WalkStageEmits(p) ==
    /\ p \in DOMAIN fs /\ ~IsSymlink(fs, p)
    /\ DetermineMediaType(p) # TypeUnknown
    /\ ~HasPrefix(Base(p), <<"._">>)
    /\ ~IsJournalFile(p)
    /\ ~(resumeMode /\ p \in completedPaths)

\* C33: handling an entry of the source tree, the walker sends its path on
\* pathsCh if and only if the entry is a file the walk stage is to emit, and
\* it handles every entry once.
C33_WalkFilter ==
    [][ WalkerSteps =>
          LET p == WalkOrder[walkIdx]
          IN (pathsCh' = Append(pathsCh, p)) <=> WalkStageEmits(p) ]_vars

\* a step of a transfer worker
MoverSteps ==
    /\ phase = "run" /\ phase' = "run"
    /\ moving' # moving \/ (moveCh # <<>> /\ moveCh' = Tail(moveCh))

\* the journal j2 differs from j in the status and error message of rows only
StatusOnly(j, j2) ==
    /\ DOMAIN j2 = DOMAIN j
    /\ \A p \in DOMAIN j :
          [j2[p] EXCEPT !.Status = j[p].Status, !.ErrorMessage = j[p].ErrorMessage] = j[p]

\* the organizer has a file in hand: received, not yet assigned
InHand == phase = "run" /\ org.pc \in {"backfill", "bfhash", "assign"}

\* the organizer assigns a destination to the file in hand
OrgAssigns == phase = "run" /\ phase' = "run" /\ org.pc = "assign" /\ org'.pc = "loop"

\* the rows journaled before the file id whose files have the bytes of id:
\* what the organize order alone says about id being a duplicate
EarlierSameContent(id) ==
    {q \in DOMAIN journal \ {id} : q \in DOMAIN tree /\ tree[q] = tree[id]}

\* C34: while the organizer has a file in hand it takes no other file and
\* writes the journal for that file's sake only; a transfer worker changes
\* nothing of the journal but the status and error message of a record; and
\* the duplicate flag, sequence number and destination path the organizer
\* assigns are those of the order of arrival: in the first run, a file is a
\* duplicate exactly when a row journaled before it has the same bytes, its
\* sequence number is the count of the rows with its timestamp key, and its
\* path follows from the two.
C34_SerializedOrganize ==
    /\ [][ InHand /\ phase' = "run" =>
              /\ org'.pc = "loop" \/ org'.file = org.file
              /\ pendingRecords' = pendingRecords
              /\ Len(metaCh') >= Len(metaCh)
              /\ \A p \in DOMAIN journal' :
                    (p \notin DOMAIN journal \/ ~StatusOnly(journal, [journal EXCEPT ![p] = journal'[p]]))
                        => p \in {org.file.SourcePath} \cup Range(org.unhashed) ]_vars
    /\ [][ MoverSteps => StatusOnly(journal, journal') ]_vars
    /\ [][ OrgAssigns /\ runs = 1 =>
              LET id == org.file.SourcePath
                  dup == EarlierSameContent(id) # {}
                  seq == seqNumOf(journal, tsKeyOf(org.file))
              IN /\ journal'[id].IsDuplicate = dup
                 /\ journal'[id].SequenceNum = seq
                 /\ journal'[id].DestPath
                        = computeDestPath(Scanner(opts), org.file, dup, seq) ]_vars

\* the number of records of the journal j that share the grouping key
KeyCount(j, key) == Cardinality({p \in Records(j) : j[p].TimestampKey = key})

AllStagesDone ==
    /\ walkIdx > Len(WalkOrder)
    /\ pathsCh = <<>> /\ extracting = {}
    /\ metaCh = <<>> /\ pendingRecords = <<>> /\ org.pc = "done"
    /\ moveCh = <<>> /\ moving = {}

\* C36: under fair scheduling a run that is not stopped returns, also when
\* the queues are full and when more records are re-queued than a queue
\* holds; Scan goes on to cleanup and statistics only when the walker, the
\* extract workers, the organizer and the transfer workers have finished and
\* the queues are empty.
C36_PipelineTerminates ==
    /\ (phase = "run") ~> (phase = "idle")
    /\ [][ ScanReturns => AllStagesDone ]_vars

\* C36 witness: Scan has returned from a resume run that re-queued more
\* records than the capacity of moveCh, both transferred
C36_Witness ==
    /\ Returned /\ resumeMode
    /\ Len(GetPendingFiles(ResetFailed(startJ))) > cap
    /\ \A p \in Range(GetPendingFiles(ResetFailed(startJ))) :
          journal[p].Status = StatusCompleted /\ p \in DOMAIN sent

\* the paths the extract stage holds: queued, being read, or read and queued
InPathsCh == Range(pathsCh)
InExtract == {r.SourcePath : r \in extracting}
InMetaCh == {metaCh[i].SourcePath : i \in 1..Len(metaCh)}

\* moveCh is closed: the organizer has returned
moveClosed == org.pc = "done"

\* the copies of the job of record id that the transfer stage holds
JobsHeld(id) ==
    Cardinality({i \in 1..Len(moveCh) : moveCh[i].RecordID = id})
    + Cardinality({m \in moving : m.job.RecordID = id})

\* a step within one run of Scan
StepInRun == phase = "run" /\ phase' = "run"

\* C37: a closed queue stays closed and takes no further item; moveCh is
\* closed only when the walker is done, no extract worker holds a file and
\* pathsCh, metaCh and the re-queue list are empty; every path the walker
\* has emitted is at exactly one place (pathsCh, an extract worker, metaCh,
\* or counted by the organizer), and every job the organizer has emitted is
\* in moveCh or with a transfer worker or has its status written.
C37_CloseProtocol ==
    /\ [][ StepInRun =>
             /\ pathsClosed => pathsClosed' /\ Len(pathsCh') <= Len(pathsCh)
             /\ metaClosed => metaClosed' /\ Len(metaCh') <= Len(metaCh)
             /\ moveClosed => moveClosed' /\ Len(moveCh') <= Len(moveCh) ]_vars
    /\ [](phase = "run" =>
             /\ metaClosed => pathsClosed /\ pathsCh = <<>> /\ extracting = {}
             /\ moveClosed => metaClosed /\ metaCh = <<>> /\ pendingRecords = <<>>
             /\ Cardinality(InPathsCh) = Len(pathsCh)
             /\ Cardinality(InExtract) = Cardinality(extracting)
             /\ Cardinality(InMetaCh) = Len(metaCh)
             /\ InPathsCh \cap InExtract = {}
             /\ InPathsCh \cap InMetaCh = {}
             /\ InExtract \cap InMetaCh = {}
             /\ result.TotalFiles =
                   Len(pathsCh) + Cardinality(extracting) + Len(metaCh)
                   + result.ProcessedFiles + result.SkippedFiles
             /\ \A id \in DOMAIN sent :
                   /\ JobsHeld(id) <= sent[id]
                   /\ JobsHeld(id) = 0 /\ id \in Records(journal)
                         => journal[id].Status # StatusPending)

\* Scan has returned from a run whose walker emitted at least two paths: the
\* organizer has counted each of them, and every job it emitted has its
\* status written
C37_Witness ==
    /\ Returned
    /\ result.TotalFiles >= 2
    /\ result.ProcessedFiles + result.SkippedFiles = result.TotalFiles
    /\ \A id \in DOMAIN sent : id \in Records(journal) /\ journal[id].Status # StatusPending
    /\ DOMAIN sent # {}

\* the records a dry run has marked, in the journal the current run started on
DryRunMarked == {p \in Records(startJ) : startJ[p].Status = StatusDryRun}

\* the current run resumes on a kept journal and is not a dry run
RealResume == phase = "run" /\ resumeMode /\ ~opts.dryRun

\* C38: in a run that resumes on the journal of a dry run and is not a dry
\* run itself, a record marked dry_run is not walked, gets no transfer job,
\* keeps its status, and its source file stays where and what it was.
C38_DryRunBlocksRealRun ==
    /\ [](RealResume =>
            \A p \in DryRunMarked :
               /\ p \in completedPaths
               /\ p \notin InPathsCh \cup InExtract \cup InMetaCh
               /\ org.pc # "loop" /\ org.pc # "done" => org.file.SourcePath # p
               /\ p \notin DOMAIN sent
               /\ JobsHeld(p) = 0
               /\ p \in Records(journal) /\ journal[p].Status = StatusDryRun)
    /\ [][ RealResume =>
            \A p \in DryRunMarked :
               p \in DOMAIN fs => p \in DOMAIN fs' /\ fs'[p] = fs[p] ]_vars

\* a real run on the journal of a dry run has returned with a file in the
\* source tree that the dry run had marked
C38_Witness ==
    /\ Returned /\ resumeMode /\ ~opts.dryRun
    /\ \E p \in DryRunMarked : p \in DOMAIN fs /\ journal[p].Status = StatusDryRun

\* the records a step sets to completed
NewlyCompleted ==
    {id \in Records(journal') :
        /\ journal'[id].Status = StatusCompleted
        /\ id \in Records(journal) => journal[id].Status # StatusCompleted}

\* the transfer workers whose copy a step ends without success
CopyGivenUp ==
    {m \in moving : /\ m.pc = "copying"
                    /\ m \notin moving'
                    /\ [m EXCEPT !.pc = "written"] \notin moving'}

\* C39: a copy run removes and changes no file of the source tree; a step
\* that sets a record to completed leaves a file at the record's destination
\* and, in a move run, no file at its source path; a copy that is given up
\* (also the copy of the cross-device fallback, and the removal of the source
\* that follows it) leaves the record failed.
C39_TransferEffect ==
    [][ StepInRun =>
          /\ opts.copyFiles /\ ~opts.dryRun =>
                \A p \in DOMAIN fs :
                   Under(p, SourceDir) => p \in DOMAIN fs' /\ fs'[p] = fs[p]
          /\ \A id \in NewlyCompleted :
                /\ Exists(fs', journal'[id].DestPath)
                /\ ~opts.copyFiles => id \notin DOMAIN fs'
          /\ \A m \in CopyGivenUp :
                /\ m.job.RecordID \in Records(journal')
                /\ journal'[m.job.RecordID].Status = StatusFailed ]_vars

\* a move run across filesystems has returned: one record is completed, its
\* source gone and its bytes at the destination; another is failed because
\* the source could not be removed, and its source is still there
C39_Witness ==
    /\ Returned /\ xdev /\ ~opts.copyFiles /\ ~opts.dryRun
    /\ \E p, q \in Records(journal) :
          /\ journal[p].Status = StatusCompleted
          /\ p \notin DOMAIN fs
          /\ Exists(fs, journal[p].DestPath)
          /\ fs[journal[p].DestPath] # "partial"
          /\ journal[q].Status = StatusFailed
          /\ journal[q].ErrorMessage = "remove: permission denied"
          /\ q \in DOMAIN fs

\* the organizer assigns the file in its hand
OrgAssigning == StepInRun /\ org.pc = "assign" /\ org' = OrgIdle

\* a file with the bytes the organizer has hashed lies at path p
HasHashedBytes(p) == Exists(fs, p) /\ HashOf(fs[p]) = org.fileHash

\* the journal rows that make the file in the organizer's hand a duplicate
Originals == GetByHash(journal, org.fileHash) \ {org.file.SourcePath}

\* C40: when the organizer marks the file in its hand duplicate, a file with
\* the same bytes lies at the source path or at the recorded destination path
\* of a journal row with its hash; a hashed dest_index row whose file is gone
\* does not make a file a duplicate.
C40_DuplicateHasOriginal ==
    [][ OrgAssigning
        /\ isDuplicateOf(journal, org.file.SourcePath, org.fileHash)
        => \E m \in Originals :
              HasHashedBytes(m) \/ HasHashedBytes(journal[m].DestPath) ]_vars

====
